---- MODULE Spec2Model ----
(***************************************************************************)
(* The core of the Cairo virtual machine: write-once segmented memory,     *)
(* operand resolution with deduction, opcode assertions, register updates, *)
(* the bitwise builtin and the auto-deduction verifier.                    *)
(***************************************************************************)
EXTENDS Integers, Naturals, Sequences, FiniteSets, TLC

VARIABLES
    memory,              \* vm.memory: the assigned cells, address -> value
    pc,                  \* vm.run_context.pc (a Relocatable)
    ap,                  \* vm.run_context.ap (offset in segment 1)
    fp,                  \* vm.run_context.fp (offset in segment 1)
    current_step,        \* vm.current_step
    trace,               \* vm.trace (trace enabled)
    accessed_addresses,  \* vm.accessed_addresses
    error_message_attributes,  \* vm.error_message_attributes
    num_segments,        \* vm.segments.num_segments
    num_temp_segments,   \* vm.segments.num_temp_segments
    relocation_rules,    \* vm.memory.relocation_rules: temporary segment -> address
    builtin_runners,     \* vm.builtin_runners, in registration order
    result               \* the last public call: its name, inputs and returned value

vars == <<memory, pc, ap, fp, current_step, trace, accessed_addresses,
          error_message_attributes, num_segments, num_temp_segments,
          relocation_rules, builtin_runners, result>>

----------------------------------------------------------------------------
(* Bounds of the model *)

\* Highest offset of a cell of the execution segment the model writes.
MaxOffset == 3
\* Highest offset of a cell of the builtin segment the model writes.
MaxBuiltinOffset == 7
\* Steps per run.
MaxSteps == 2
\* Segments of each kind a host adds.
MaxSegments == 3

\* Steps a run has taken when the allocation of a builtin is checked
MaxCurrentStep == 5
\* Longest input of unsafe_keccak, in bytes
MaxLength == 4

(* Program parameters *)

\* VirtualMachine::new(prime, ..): a small prime field.
Prime == 17
\* i64::MAX of BigInt::to_i64, scaled with the prime: i64_MAX < Prime - 1
i64_MAX == 15
\* BitwiseInstanceDef.total_n_bits: 2^total_n_bits < prime, as for 251 bits.
total_n_bits == 2
\* BitwiseBuiltinRunner.cells_per_instance
cells_per_instance == 5

----------------------------------------------------------------------------
(* MaybeRelocatable values, Option and Result *)

None == [none |-> TRUE]
MInt(n) == [int |-> n]
Rel(s, o) == [segment_index |-> s, offset |-> o]

IsInt(v) == DOMAIN v = {"int"}
IsRel(v) == DOMAIN v = {"segment_index", "offset"}

Ok(v) == [ok |-> TRUE, val |-> v]
Err(e) == [ok |-> FALSE, err |-> e]

\* Evaluates v once and names it in G.
Let(v, G(_)) == CHOOSE y \in {G(z) : z \in {v}} : TRUE

RECURSIVE Pow2(_)
Pow2(n) == IF n = 0 THEN 1 ELSE 2 * Pow2(n - 1)

----------------------------------------------------------------------------
(* Value arithmetic (types/relocatable.rs): Int is a residue modulo the     *)
(* prime, an address offset is a plain unsigned integer                     *)

\* Relocatable + usize
rel_add_usize(r, n) == Rel(r.segment_index, r.offset + n)

\* Relocatable::add_int_mod: Addr + Int
add_int_mod(r, n) == Ok(Rel(r.segment_index, r.offset + n))

\* Relocatable::add_maybe_mod: Addr + Value
add_maybe_mod(r, v) ==
    IF IsInt(v) THEN add_int_mod(r, v.int) ELSE Err(<<"PureValue">>)

\* MaybeRelocatable::add_mod: Value + Value
add_mod(a, b) ==
    CASE IsInt(a) /\ IsInt(b) -> Ok(MInt((a.int + b.int) % Prime))
      [] IsRel(a) /\ IsInt(b) -> add_int_mod(a, b.int)
      [] IsInt(a) /\ IsRel(b) -> add_int_mod(b, a.int)
      [] OTHER -> Err(<<"PureValue">>)

\* MaybeRelocatable::sub: Value - Value
sub(a, b) ==
    CASE IsInt(a) /\ IsInt(b) -> Ok(MInt((a.int - b.int) % Prime))
      [] IsRel(a) /\ IsInt(b) ->
            IF a.offset >= b.int
            THEN Ok(Rel(a.segment_index, a.offset - b.int))
            ELSE Err(<<"CantSubOffset">>)
      [] IsRel(a) /\ IsRel(b) ->
            IF a.segment_index = b.segment_index
            THEN Ok(MInt((a.offset - b.offset) % Prime))
            ELSE Err(<<"DiffIndexSub">>)
      [] OTHER -> Err(<<"NotImplemented">>)

----------------------------------------------------------------------------
(* Memory (vm_memory/memory.rs) *)

\* Memory::get
get(mem, addr) == IF addr \in DOMAIN mem THEN mem[addr] ELSE None

\* Memory::insert: write-once
insert(mem, addr, val) ==
    IF addr \in DOMAIN mem
    THEN IF mem[addr] = val
         THEN Ok(mem)
         ELSE Err(<<"InconsistentMemory", addr, mem[addr], val>>)
    ELSE Ok([a \in DOMAIN mem \cup {addr} |-> IF a = addr THEN val ELSE mem[a]])

\* memory.data[index].len(): one past the highest assigned offset of a segment
segment_len(mem, index) ==
    LET offs == {a.offset : a \in {b \in DOMAIN mem : b.segment_index = index}}
    IN IF offs = {} THEN 0 ELSE 1 + CHOOSE m \in offs : \A o \in offs : o <= m

----------------------------------------------------------------------------
(* Instructions (types/instruction.rs) and the decoder (vm/decoding) *)

Instruction(o0, o1, o2, dreg, oreg, o1addr, r, pcu, apu, fpu, opc) ==
    [off0 |-> o0, off1 |-> o1, off2 |-> o2, imm |-> None,
     dst_register |-> dreg, op0_register |-> oreg, op1_addr |-> o1addr,
     res |-> r, pc_update |-> pcu, ap_update |-> apu, fp_update |-> fpu,
     opcode |-> opc]

\* Instruction::size
size(instruction) == IF instruction.imm = None THEN 1 ELSE 2

\* The instruction words of the model: word k decodes to InstructionSet[k + 1].
InstructionSet ==
    << \* 0: assert [fp] = [fp+1] + [fp+2]
       Instruction(0, 1, 2, "FP", "FP", "FP", "Add", "Regular", "Regular", "Regular", "AssertEq"),
       \* 1: assert [fp] = [fp+1] * [fp+2]
       Instruction(0, 1, 2, "FP", "FP", "FP", "Mul", "Regular", "Regular", "Regular", "AssertEq"),
       \* 2: assert [fp] = [fp+2]; ap++
       Instruction(0, 1, 2, "FP", "FP", "FP", "Op1", "Regular", "Add1", "Regular", "AssertEq"),
       \* 3: jmp rel imm if [fp] != 0
       Instruction(0, 1, 1, "FP", "FP", "Imm", "Unconstrained", "Jnz", "Regular", "Regular", "NOp"),
       \* 4: jmp rel [fp+2] if [fp] != 0
       Instruction(0, 1, 2, "FP", "FP", "FP", "Unconstrained", "Jnz", "Regular", "Regular", "NOp"),
       \* 5: call rel imm
       Instruction(0, 1, 1, "AP", "AP", "Imm", "Op1", "JumpRel", "Add2", "APPlus2", "Call"),
       \* 6: ret
       Instruction(-2, -1, -1, "FP", "FP", "FP", "Op1", "Jump", "Regular", "Dst", "Ret"),
       \* 7: assert [ap+1] = [[fp] + 2]; ap++
       Instruction(1, 0, 2, "AP", "FP", "Op0", "Op1", "Regular", "Add1", "Regular", "AssertEq"),
       \* 8: a call whose dst and op0 are the same cell
       Instruction(0, 0, 1, "AP", "AP", "Imm", "Op1", "JumpRel", "Add2", "APPlus2", "Call"),
       \* 9: ap += [fp+1] + [fp+2]
       Instruction(0, 1, 2, "FP", "FP", "FP", "Add", "Regular", "Add", "Regular", "NOp"),
       \* 10: ap += an unconstrained result
       Instruction(0, 1, 2, "FP", "FP", "FP", "Unconstrained", "Regular", "Add", "Regular", "NOp"),
       \* 11: jmp abs to an unconstrained result
       Instruction(0, 1, 2, "FP", "FP", "FP", "Unconstrained", "Jump", "Regular", "Regular", "NOp"),
       \* 12: jmp rel by an unconstrained result
       Instruction(0, 1, 2, "FP", "FP", "FP", "Unconstrained", "JumpRel", "Regular", "Regular", "NOp"),
       \* 13: jmp rel [fp+2]
       Instruction(0, 1, 2, "FP", "FP", "FP", "Op1", "JumpRel", "Regular", "Regular", "NOp"),
       \* 14: assert [fp] = an unconstrained result
       Instruction(0, 1, 2, "FP", "FP", "FP", "Unconstrained", "Regular", "Regular", "Regular", "AssertEq"),
       \* 15: call abs [fp+2]
       Instruction(0, 1, 2, "AP", "AP", "FP", "Op1", "Jump", "Add2", "APPlus2", "Call") >>

\* decode_instruction(encoding, imm)
decode_instruction(encoding, imm) ==
    IF encoding >= Len(InstructionSet)
    THEN Err(<<"InvalidInstructionEncoding">>)
    ELSE LET shape == InstructionSet[encoding + 1]
         IN IF shape.op1_addr = "Imm"
            THEN IF imm = None
                 THEN Err(<<"NoImm">>)
                 ELSE Ok([shape EXCEPT !.imm = imm])
            ELSE Ok(shape)

\* The program segment as loaded: instruction words, each immediate after its
\* word; the word at offset 18 is a field element above i64_MAX.
Program == << 5, 3, 0, 6, 1, 2, 3, 2, 4, 7, 8, 2, 9, 10, 11, 12, 13, 14, 16, 15 >>

----------------------------------------------------------------------------
(* Run context (vm/context/run_context.rs) *)

\* RunContext::get_ap / get_fp: the register paired with segment 1
get_ap(regs) == Rel(1, regs.ap)
get_fp(regs) == Rel(1, regs.fp)

\* base +/- a signed offset
apply_offset(base, off) ==
    IF base.offset + off < 0
    THEN Err(<<"CantSubOffset">>)
    ELSE Ok(Rel(base.segment_index, base.offset + off))

\* RunContext::compute_dst_addr
compute_dst_addr(regs, instruction) ==
    apply_offset(IF instruction.dst_register = "AP" THEN get_ap(regs) ELSE get_fp(regs),
                 instruction.off0)

\* RunContext::compute_op0_addr
compute_op0_addr(regs, instruction) ==
    apply_offset(IF instruction.op0_register = "AP" THEN get_ap(regs) ELSE get_fp(regs),
                 instruction.off1)

\* RunContext::compute_op1_addr
compute_op1_addr(regs, instruction, op0) ==
    CASE instruction.op1_addr = "FP" -> apply_offset(get_fp(regs), instruction.off2)
      [] instruction.op1_addr = "AP" -> apply_offset(get_ap(regs), instruction.off2)
      [] instruction.op1_addr = "Imm" ->
            IF instruction.off2 = 1
            THEN apply_offset(regs.pc, instruction.off2)
            ELSE Err(<<"ImmShouldBe1">>)
      [] OTHER ->
            IF op0 = None THEN Err(<<"UnknownOp0">>)
            ELSE IF IsRel(op0) THEN apply_offset(op0, instruction.off2)
            ELSE Err(<<"PureValue">>)

----------------------------------------------------------------------------
(* Bitwise builtin (vm/runners/builtin_runner/bitwise.rs) *)

\* BigInt & BigInt
RECURSIVE BitAnd(_, _)
BitAnd(a, b) ==
    IF a = 0 \/ b = 0 THEN 0
    ELSE (a % 2) * (b % 2) + 2 * BitAnd(a \div 2, b \div 2)

\* BigInt ^ BigInt
RECURSIVE BitXor(_, _)
BitXor(a, b) ==
    IF a = 0 /\ b = 0 THEN 0
    ELSE (((a % 2) + (b % 2)) % 2) + 2 * BitXor(a \div 2, b \div 2)

\* BigInt | BigInt
RECURSIVE BitOr(_, _)
BitOr(a, b) ==
    IF a = 0 /\ b = 0 THEN 0
    ELSE (IF a % 2 = 1 \/ b % 2 = 1 THEN 1 ELSE 0) + 2 * BitOr(a \div 2, b \div 2)

\* Faulty variant of deduce_memory_cell: the XOR and OR cells exchanged
bitwise_deduce_memory_cell_swapped(address, mem) ==
    LET index == address.offset % cells_per_instance
        x_addr == Rel(address.segment_index, address.offset - index)
        num_x == get(mem, x_addr)
        num_y == get(mem, Rel(x_addr.segment_index, x_addr.offset + 1))
    IN IF index >= 2 /\ IsInt(num_x) /\ IsInt(num_y)
          /\ num_x.int < Pow2(total_n_bits) /\ num_y.int < Pow2(total_n_bits)
       THEN CASE index = 2 -> Ok(MInt(BitAnd(num_x.int, num_y.int)))
              [] index = 3 -> Ok(MInt(BitOr(num_x.int, num_y.int)))
              [] OTHER -> Ok(MInt(BitXor(num_x.int, num_y.int)))
       ELSE Ok(None)

\* Faulty variant of deduce_memory_cell: an input that is not an Int read as 0
bitwise_deduce_memory_cell_default(address, mem) ==
    LET index == address.offset % cells_per_instance
        x_addr == Rel(address.segment_index, address.offset - index)
        num_x == get(mem, x_addr)
        num_y == get(mem, Rel(x_addr.segment_index, x_addr.offset + 1))
        x == IF IsInt(num_x) THEN num_x.int ELSE 0
        y == IF IsInt(num_y) THEN num_y.int ELSE 0
    IN IF index >= 2 /\ x < Pow2(total_n_bits) /\ y < Pow2(total_n_bits)
       THEN CASE index = 2 -> Ok(MInt(BitAnd(x, y)))
              [] index = 3 -> Ok(MInt(BitXor(x, y)))
              [] OTHER -> Ok(MInt(BitOr(x, y)))
       ELSE Ok(None)

\* Faulty variant of deduce_memory_cell: the range of y checked before that of x
bitwise_deduce_memory_cell_y_first(address, mem) ==
    LET index == address.offset % cells_per_instance
        x_addr == Rel(address.segment_index, address.offset - index)
        y_addr == Rel(x_addr.segment_index, x_addr.offset + 1)
        num_x == get(mem, x_addr)
        num_y == get(mem, y_addr)
    IN IF index >= 2 /\ IsInt(num_x) /\ IsInt(num_y)
       THEN IF num_y.int >= Pow2(total_n_bits)
            THEN Err(<<"IntegerBiggerThanPowerOfTwo", y_addr, total_n_bits, num_y.int>>)
            ELSE IF num_x.int >= Pow2(total_n_bits)
            THEN Err(<<"IntegerBiggerThanPowerOfTwo", x_addr, total_n_bits, num_x.int>>)
            ELSE CASE index = 2 -> Ok(MInt(BitAnd(num_x.int, num_y.int)))
                   [] index = 3 -> Ok(MInt(BitXor(num_x.int, num_y.int)))
                   [] OTHER -> Ok(MInt(BitOr(num_x.int, num_y.int)))
       ELSE Ok(None)

\* BitwiseBuiltinRunner::deduce_memory_cell
bitwise_deduce_memory_cell(address, mem) ==
    LET index == address.offset % cells_per_instance
    IN IF index = 0 \/ index = 1
       THEN Ok(None)
       ELSE LET x_addr == Rel(address.segment_index, address.offset - index)
                y_addr == Rel(x_addr.segment_index, x_addr.offset + 1)
                num_x == get(mem, x_addr)
                num_y == get(mem, y_addr)
            IN IF IsInt(num_x) /\ IsInt(num_y)
               THEN IF num_x.int >= Pow2(total_n_bits)
                    THEN Err(<<"IntegerBiggerThanPowerOfTwo", x_addr, total_n_bits, num_x.int>>)
                    ELSE IF num_y.int >= Pow2(total_n_bits)
                    THEN Err(<<"IntegerBiggerThanPowerOfTwo", y_addr, total_n_bits, num_y.int>>)
                    ELSE CASE index = 2 -> Ok(MInt(BitAnd(num_x.int, num_y.int)))
                           [] index = 3 -> Ok(MInt(BitXor(num_x.int, num_y.int)))
                           [] index = 4 -> Ok(MInt(BitOr(num_x.int, num_y.int)))
                           [] OTHER -> Ok(None)
               ELSE Ok(None)

\* vm.builtin_runners of a run with the bitwise builtin, its segment allocated
\* after the program and execution segments
BitwiseRunners == << [name |-> "bitwise", base |-> 2] >>

\* BuiltinRunner::deduce_memory_cell: dispatch by runner type
builtin_deduce_memory_cell(builtin, address, mem) ==
    bitwise_deduce_memory_cell(address, mem)

----------------------------------------------------------------------------
(* Operand deduction (vm/vm_core.rs) *)

\* Wraps an inner error in an outer error variant.
WrapErr(kind, r) == IF r.ok THEN r ELSE Err(<<kind>> \o r.err)

\* Faulty variant of deduce_op0: a Call returns to the word after its own,
\* whatever the size of the instruction
deduce_op0_next_word(regs, instruction, dst, op1) ==
    CASE instruction.opcode = "Call" ->
            Ok([op |-> rel_add_usize(regs.pc, 1), res |-> None])
      [] instruction.opcode = "AssertEq" /\ instruction.res = "Add"
            /\ dst # None /\ op1 # None ->
            LET d == sub(dst, op1)
            IN IF d.ok THEN Ok([op |-> d.val, res |-> dst]) ELSE d
      [] instruction.opcode = "AssertEq" /\ instruction.res = "Mul"
            /\ dst # None /\ op1 # None /\ IsInt(dst) /\ IsInt(op1) /\ op1.int # 0 ->
            Ok([op |-> MInt((dst.int \div op1.int) % Prime), res |-> dst])
      [] OTHER -> Ok([op |-> None, res |-> None])

\* VirtualMachine::deduce_op0: (deduced op0, deduced res)
deduce_op0(regs, instruction, dst, op1) ==
    CASE instruction.opcode = "Call" ->
            Ok([op |-> rel_add_usize(regs.pc, size(instruction)), res |-> None])
      [] instruction.opcode = "AssertEq" /\ instruction.res = "Add"
            /\ dst # None /\ op1 # None ->
            LET d == sub(dst, op1)
            IN IF d.ok THEN Ok([op |-> d.val, res |-> dst]) ELSE d
      [] instruction.opcode = "AssertEq" /\ instruction.res = "Mul"
            /\ dst # None /\ op1 # None /\ IsInt(dst) /\ IsInt(op1) /\ op1.int # 0 ->
            Ok([op |-> MInt((dst.int \div op1.int) % Prime), res |-> dst])
      [] OTHER -> Ok([op |-> None, res |-> None])

\* Faulty variant of deduce_op1: the Add case subtracts the wrong way round
deduce_op1_reversed(instruction, dst, op0) ==
    CASE instruction.opcode = "AssertEq" /\ instruction.res = "Op1" /\ dst # None ->
            Ok([op |-> dst, res |-> dst])
      [] instruction.opcode = "AssertEq" /\ instruction.res = "Add"
            /\ dst # None /\ op0 # None ->
            Let(sub(op0, dst), LAMBDA d :
                IF d.ok THEN Ok([op |-> d.val, res |-> dst]) ELSE d)
      [] instruction.opcode = "AssertEq" /\ instruction.res = "Mul"
            /\ dst # None /\ op0 # None /\ IsInt(dst) /\ IsInt(op0) /\ op0.int # 0 ->
            Ok([op |-> MInt((dst.int \div op0.int) % Prime), res |-> dst])
      [] OTHER -> Ok([op |-> None, res |-> None])

\* VirtualMachine::deduce_op1: (deduced op1, deduced res)
deduce_op1(instruction, dst, op0) ==
    CASE instruction.opcode = "AssertEq" /\ instruction.res = "Op1" /\ dst # None ->
            Ok([op |-> dst, res |-> dst])
      [] instruction.opcode = "AssertEq" /\ instruction.res = "Add"
            /\ dst # None /\ op0 # None ->
            LET d == sub(dst, op0)
            IN IF d.ok THEN Ok([op |-> d.val, res |-> dst]) ELSE d
      [] instruction.opcode = "AssertEq" /\ instruction.res = "Mul"
            /\ dst # None /\ op0 # None /\ IsInt(dst) /\ IsInt(op0) /\ op0.int # 0 ->
            Ok([op |-> MInt((dst.int \div op0.int) % Prime), res |-> dst])
      [] OTHER -> Ok([op |-> None, res |-> None])

\* Faulty variant of deduce_memory_cell: the first registered builtin is
\* asked, whatever its base
deduce_memory_cell_from_any(i, address, mem) ==
    IF i > Len(builtin_runners)
    THEN Ok(None)
    ELSE WrapErr("RunnerError",
                 builtin_deduce_memory_cell(builtin_runners[i], address, mem))

\* VirtualMachine::deduce_memory_cell: the first builtin owning the segment
RECURSIVE deduce_memory_cell_from(_, _, _)
deduce_memory_cell_from(i, address, mem) ==
    IF i > Len(builtin_runners)
    THEN Ok(None)
    ELSE IF builtin_runners[i].base = address.segment_index
         THEN WrapErr("RunnerError",
                      builtin_deduce_memory_cell(builtin_runners[i], address, mem))
         ELSE deduce_memory_cell_from(i + 1, address, mem)

deduce_memory_cell(address, mem) == deduce_memory_cell_from(1, address, mem)

\* Faulty variant of the call of deduce_memory_cell: the deduced value is
\* stored in the queried cell
deduce_memory_cell_stored(vm, address) ==
    Let(deduce_memory_cell(address, vm.memory), LAMBDA d :
        IF d.ok /\ d.val # None
        THEN [vm |-> [vm EXCEPT !.memory =
                         [a \in DOMAIN vm.memory \cup {address} |->
                             IF a = address THEN d.val ELSE vm.memory[a]]],
              ret |-> d]
        ELSE [vm |-> vm, ret |-> d])

\* A call vm.deduce_memory_cell(address) on the VM (&mut self): [vm, ret]
deduce_memory_cell_call(vm, address) ==
    [vm |-> vm, ret |-> deduce_memory_cell(address, vm.memory)]

\* Faulty variant of compute_res: the product is not reduced modulo the prime
compute_res_unreduced(instruction, op0, op1) ==
    CASE instruction.res = "Op1" -> Ok(op1)
      [] instruction.res = "Add" -> add_mod(op0, op1)
      [] instruction.res = "Mul" ->
            IF IsInt(op0) /\ IsInt(op1)
            THEN Ok(MInt(op0.int * op1.int))
            ELSE Err(<<"PureValue">>)
      [] OTHER -> Ok(None)

\* VirtualMachine::compute_res
compute_res(instruction, op0, op1) ==
    CASE instruction.res = "Op1" -> Ok(op1)
      [] instruction.res = "Add" -> add_mod(op0, op1)
      [] instruction.res = "Mul" ->
            IF IsInt(op0) /\ IsInt(op1)
            THEN Ok(MInt((op0.int * op1.int) % Prime))
            ELSE Err(<<"PureValue">>)
      [] OTHER -> Ok(None)

\* VirtualMachine::deduce_dst
deduce_dst(regs, instruction, res) ==
    CASE instruction.opcode = "AssertEq" /\ res # None -> res
      [] instruction.opcode = "Call" -> get_fp(regs)
      [] OTHER -> None

----------------------------------------------------------------------------
(* Operand resolution (vm/vm_core.rs) *)

\* The tail of compute_op0_deductions / compute_op1_deductions: the deduced
\* operand d = Ok([op, res]) is required and written at addr
write_deduced(mem, addr, d) ==
    IF ~d.ok THEN [mem |-> mem, ret |-> d]
    ELSE IF d.val.op = None
    THEN [mem |-> mem, ret |-> Err(<<"FailedToComputeOperands">>)]
    ELSE Let(insert(mem, addr, d.val.op), LAMBDA w :
             IF w.ok
             THEN [mem |-> w.val, ret |-> d]
             ELSE [mem |-> mem, ret |-> WrapErr("MemoryError", w)])

\* VirtualMachine::compute_op0_deductions: [mem, ret = Ok([op, res]) or Err]
compute_op0_deductions(mem, regs, op0_addr, res, instruction, dst_op, op1_op) ==
    Let(deduce_memory_cell(op0_addr, mem), LAMBDA cell :
        IF ~cell.ok THEN [mem |-> mem, ret |-> cell]
        ELSE Let(IF cell.val = None
                 THEN deduce_op0(regs, instruction, dst_op, op1_op)
                 ELSE Ok([op |-> cell.val, res |-> res]),
                 LAMBDA d : write_deduced(mem, op0_addr, d)))

\* Faulty variant of compute_op1_deductions: the instruction-level deduction
\* is tried first and the builtin is asked only when it yields nothing
compute_op1_deductions_instruction_first(mem, op1_addr, res, instruction, dst_op, op0) ==
    Let(deduce_op1(instruction, dst_op, op0), LAMBDA e :
        IF ~e.ok THEN [mem |-> mem, ret |-> e]
        ELSE IF e.val.op # None
        THEN write_deduced(mem, op1_addr,
                           IF res # None THEN Ok([op |-> e.val.op, res |-> res]) ELSE e)
        ELSE Let(deduce_memory_cell(op1_addr, mem), LAMBDA cell :
                 IF ~cell.ok THEN [mem |-> mem, ret |-> cell]
                 ELSE write_deduced(mem, op1_addr, Ok([op |-> cell.val, res |-> res]))))

\* VirtualMachine::compute_op1_deductions: [mem, ret = Ok([op, res]) or Err]
compute_op1_deductions(mem, op1_addr, res, instruction, dst_op, op0) ==
    Let(deduce_memory_cell(op1_addr, mem), LAMBDA cell :
        IF ~cell.ok THEN [mem |-> mem, ret |-> cell]
        ELSE Let(IF cell.val = None
                 THEN Let(deduce_op1(instruction, dst_op, op0), LAMBDA e :
                          IF e.ok /\ res # None
                          THEN Ok([op |-> e.val.op, res |-> res])
                          ELSE e)
                 ELSE Ok([op |-> cell.val, res |-> res]),
                 LAMBDA d : write_deduced(mem, op1_addr, d)))

\* Faulty variant of compute_dst_deductions: the deduced dst is stored over
\* whatever the cell holds
compute_dst_deductions_overwrite(mem, regs, dst_addr, instruction, res) ==
    Let(CASE instruction.opcode = "AssertEq" /\ res # None -> res
          [] instruction.opcode = "Call" -> get_fp(regs)
          [] OTHER -> None,
        LAMBDA dst_op :
            IF dst_op = None
            THEN [mem |-> mem, ret |-> Err(<<"NoDst">>)]
            ELSE [mem |-> [a \in DOMAIN mem \cup {dst_addr} |->
                              IF a = dst_addr THEN dst_op ELSE mem[a]],
                  ret |-> Ok(dst_op)])

\* VirtualMachine::compute_dst_deductions: [mem, ret = Ok(dst) or Err]
compute_dst_deductions(mem, regs, dst_addr, instruction, res) ==
    Let(CASE instruction.opcode = "AssertEq" /\ res # None -> res
          [] instruction.opcode = "Call" -> get_fp(regs)
          [] OTHER -> deduce_dst(regs, instruction, res),
        LAMBDA dst_op :
            IF dst_op = None
            THEN [mem |-> mem, ret |-> Err(<<"NoDst">>)]
            ELSE Let(insert(mem, dst_addr, dst_op), LAMBDA w :
                     IF w.ok
                     THEN [mem |-> w.val, ret |-> Ok(dst_op)]
                     ELSE [mem |-> mem, ret |-> WrapErr("MemoryError", w)]))

\* Faulty variant of compute_operands: res is computed from the operands even
\* when a deduction gave one
resolve_res_dst_recomputed(r1, regs, instruction, addresses, dst_op, op0) ==
    Let(compute_res(instruction, op0, r1.ret.val.op),
        LAMBDA rr :
            IF ~rr.ok THEN [mem |-> r1.mem, ret |-> rr]
            ELSE Let(IF dst_op # None
                     THEN [mem |-> r1.mem, ret |-> Ok(dst_op)]
                     ELSE compute_dst_deductions(r1.mem, regs, addresses[1],
                                                 instruction, rr.val),
                     LAMBDA rd :
                         IF ~rd.ret.ok THEN rd
                         ELSE [mem |-> rd.mem,
                               ret |-> Ok([operands |-> [dst |-> rd.ret.val,
                                                         res |-> rr.val,
                                                         op0 |-> op0,
                                                         op1 |-> r1.ret.val.op],
                                           addresses |-> addresses])]))

\* compute_operands, its last part: res if not deduced, then dst
resolve_res_dst(r1, regs, instruction, addresses, dst_op, op0) ==
    Let(IF r1.ret.val.res = None
        THEN compute_res(instruction, op0, r1.ret.val.op)
        ELSE Ok(r1.ret.val.res),
        LAMBDA rr :
            IF ~rr.ok THEN [mem |-> r1.mem, ret |-> rr]
            ELSE Let(IF dst_op # None
                     THEN [mem |-> r1.mem, ret |-> Ok(dst_op)]
                     ELSE compute_dst_deductions(r1.mem, regs, addresses[1],
                                                 instruction, rr.val),
                     LAMBDA rd :
                         IF ~rd.ret.ok THEN rd
                         ELSE [mem |-> rd.mem,
                               ret |-> Ok([operands |-> [dst |-> rd.ret.val,
                                                         res |-> rr.val,
                                                         op0 |-> op0,
                                                         op1 |-> r1.ret.val.op],
                                           addresses |-> addresses])]))

\* Faulty variant of compute_operands: a dst that cannot be deduced is
\* reported before op0 and op1 are resolved
resolve_operands_dst_first(mem, regs, instruction, addresses, dst_op, op0_op, op1_op) ==
    IF dst_op = None /\ instruction.opcode \in {"NOp", "Ret"}
    THEN [mem |-> mem, ret |-> Err(<<"NoDst">>)]
    ELSE
    Let(IF op0_op # None
        THEN [mem |-> mem, ret |-> Ok([op |-> op0_op, res |-> None])]
        ELSE compute_op0_deductions(mem, regs, addresses[2], None, instruction,
                                    dst_op, op1_op),
        LAMBDA r0 :
            IF ~r0.ret.ok THEN r0
            ELSE Let(IF op1_op # None
                     THEN [mem |-> r0.mem,
                           ret |-> Ok([op |-> op1_op, res |-> r0.ret.val.res])]
                     ELSE compute_op1_deductions(r0.mem, addresses[3], r0.ret.val.res,
                                                 instruction, dst_op, r0.ret.val.op),
                     LAMBDA r1 :
                         IF ~r1.ret.ok THEN r1
                         ELSE resolve_res_dst(r1, regs, instruction, addresses,
                                              dst_op, r0.ret.val.op)))

\* compute_operands, from the point where the three cells have been read:
\* op0, then op1, then res, then dst
resolve_operands(mem, regs, instruction, addresses, dst_op, op0_op, op1_op) ==
    Let(IF op0_op # None
        THEN [mem |-> mem, ret |-> Ok([op |-> op0_op, res |-> None])]
        ELSE compute_op0_deductions(mem, regs, addresses[2], None, instruction,
                                    dst_op, op1_op),
        LAMBDA r0 :
            IF ~r0.ret.ok THEN r0
            ELSE Let(IF op1_op # None
                     THEN [mem |-> r0.mem,
                           ret |-> Ok([op |-> op1_op, res |-> r0.ret.val.res])]
                     ELSE compute_op1_deductions(r0.mem, addresses[3], r0.ret.val.res,
                                                 instruction, dst_op, r0.ret.val.op),
                     LAMBDA r1 :
                         IF ~r1.ret.ok THEN r1
                         ELSE resolve_res_dst(r1, regs, instruction, addresses,
                                              dst_op, r0.ret.val.op)))

\* The addresses compute_operands forms: <<dst_addr, op0_addr, op1_addr>>
operand_addresses(mem, regs, instruction) ==
    Let(compute_dst_addr(regs, instruction), LAMBDA dst_addr :
        IF ~dst_addr.ok THEN dst_addr
        ELSE Let(compute_op0_addr(regs, instruction), LAMBDA op0_addr :
                 IF ~op0_addr.ok THEN op0_addr
                 ELSE Let(compute_op1_addr(regs, instruction, get(mem, op0_addr.val)),
                          LAMBDA op1_addr :
                              IF ~op1_addr.ok THEN op1_addr
                              ELSE Ok(<<dst_addr.val, op0_addr.val, op1_addr.val>>))))

\* VirtualMachine::compute_operands: [mem, ret = Ok([operands, addresses]) or Err]
compute_operands(mem, regs, instruction) ==
    Let(operand_addresses(mem, regs, instruction), LAMBDA a :
        IF ~a.ok THEN [mem |-> mem, ret |-> a]
        ELSE resolve_operands(mem, regs, instruction, a.val,
                              get(mem, a.val[1]), get(mem, a.val[2]), get(mem, a.val[3])))

\* Faulty variant of opcode_assertions: AssertEq compares res and dst of any kind
opcode_assertions_strict(regs, instruction, operands) ==
    CASE instruction.opcode = "AssertEq" ->
            IF operands.res = None
            THEN Err(<<"UnconstrainedResAssertEq">>)
            ELSE IF IsInt(operands.res) /\ IsInt(operands.dst)
                    /\ operands.res.int # operands.dst.int
            THEN Err(<<"DiffAssertValues", operands.dst.int, operands.res.int>>)
            ELSE IF operands.res # operands.dst
            THEN Err(<<"PureValue">>)
            ELSE Ok(None)
      [] instruction.opcode = "Call" ->
            IF operands.op0 # rel_add_usize(regs.pc, size(instruction))
            THEN Err(<<"CantWriteReturnPc", operands.op0,
                       rel_add_usize(regs.pc, size(instruction))>>)
            ELSE IF get_fp(regs) # operands.dst
            THEN Err(<<"CantWriteReturnFp", operands.dst, get_fp(regs)>>)
            ELSE Ok(None)
      [] OTHER -> Ok(None)

\* Faulty variant of opcode_assertions: Call checks the return fp first
opcode_assertions_fp_first(regs, instruction, operands) ==
    CASE instruction.opcode = "AssertEq" ->
            IF operands.res = None
            THEN Err(<<"UnconstrainedResAssertEq">>)
            ELSE IF IsInt(operands.res) /\ IsInt(operands.dst)
                    /\ operands.res.int # operands.dst.int
            THEN Err(<<"DiffAssertValues", operands.dst.int, operands.res.int>>)
            ELSE Ok(None)
      [] instruction.opcode = "Call" ->
            IF get_fp(regs) # operands.dst
            THEN Err(<<"CantWriteReturnFp", operands.dst, get_fp(regs)>>)
            ELSE IF operands.op0 # rel_add_usize(regs.pc, size(instruction))
            THEN Err(<<"CantWriteReturnPc", operands.op0,
                       rel_add_usize(regs.pc, size(instruction))>>)
            ELSE Ok(None)
      [] OTHER -> Ok(None)

\* VirtualMachine::opcode_assertions
opcode_assertions(regs, instruction, operands) ==
    CASE instruction.opcode = "AssertEq" ->
            IF operands.res = None
            THEN Err(<<"UnconstrainedResAssertEq">>)
            ELSE IF IsInt(operands.res) /\ IsInt(operands.dst)
                    /\ operands.res.int # operands.dst.int
            THEN Err(<<"DiffAssertValues", operands.dst.int, operands.res.int>>)
            ELSE Ok(None)
      [] instruction.opcode = "Call" ->
            IF operands.op0 # rel_add_usize(regs.pc, size(instruction))
            THEN Err(<<"CantWriteReturnPc", operands.op0,
                       rel_add_usize(regs.pc, size(instruction))>>)
            ELSE IF get_fp(regs) # operands.dst
            THEN Err(<<"CantWriteReturnFp", operands.dst, get_fp(regs)>>)
            ELSE Ok(None)
      [] OTHER -> Ok(None)

----------------------------------------------------------------------------
(* Register updates (vm/vm_core.rs) *)

\* bigint_to_usize
bigint_to_usize(num) ==
    IF num < 0 \/ num > i64_MAX THEN Err(<<"BigintToUsizeFail">>) ELSE Ok(num)

\* Faulty variant of update_fp: an Int dst becomes fp as it is
update_fp_unconverted(regs, instruction, operands) ==
    CASE instruction.fp_update = "APPlus2" -> Ok([regs EXCEPT !.fp = regs.ap + 2])
      [] instruction.fp_update = "Dst" ->
            IF IsRel(operands.dst)
            THEN Ok([regs EXCEPT !.fp = operands.dst.offset])
            ELSE Ok([regs EXCEPT !.fp = operands.dst.int])
      [] OTHER -> Ok(regs)

\* VirtualMachine::update_fp: the registers with the new fp
update_fp(regs, instruction, operands) ==
    CASE instruction.fp_update = "APPlus2" -> Ok([regs EXCEPT !.fp = regs.ap + 2])
      [] instruction.fp_update = "Dst" ->
            IF IsRel(operands.dst)
            THEN Ok([regs EXCEPT !.fp = operands.dst.offset])
            ELSE Let(bigint_to_usize(operands.dst.int), LAMBDA n :
                     IF n.ok THEN Ok([regs EXCEPT !.fp = n.val]) ELSE n)
      [] OTHER -> Ok(regs)

\* Faulty variant of update_ap: Add with no result leaves ap and succeeds
update_ap_unconstrained(regs, instruction, operands) ==
    CASE instruction.ap_update = "Add" ->
            IF operands.res = None
            THEN Ok(regs)
            ELSE Let(add_maybe_mod(get_ap(regs), operands.res), LAMBDA new_ap :
                     IF new_ap.ok THEN Ok([regs EXCEPT !.ap = new_ap.val.offset])
                     ELSE new_ap)
      [] instruction.ap_update = "Add1" -> Ok([regs EXCEPT !.ap = regs.ap + 1])
      [] instruction.ap_update = "Add2" -> Ok([regs EXCEPT !.ap = regs.ap + 2])
      [] OTHER -> Ok(regs)

\* VirtualMachine::update_ap: the registers with the new ap
update_ap(regs, instruction, operands) ==
    CASE instruction.ap_update = "Add" ->
            IF operands.res = None
            THEN Err(<<"UnconstrainedResAdd">>)
            ELSE Let(add_maybe_mod(get_ap(regs), operands.res), LAMBDA new_ap :
                     IF new_ap.ok THEN Ok([regs EXCEPT !.ap = new_ap.val.offset])
                     ELSE new_ap)
      [] instruction.ap_update = "Add1" -> Ok([regs EXCEPT !.ap = regs.ap + 1])
      [] instruction.ap_update = "Add2" -> Ok([regs EXCEPT !.ap = regs.ap + 2])
      [] OTHER -> Ok(regs)

\* VirtualMachine::is_zero
is_zero(addr) == IF IsInt(addr) THEN Ok(addr.int = 0) ELSE Err(<<"PureValue">>)

\* Faulty variant of update_pc: Jnz jumps when dst is zero
new_pc_inverted(regs, instruction, operands) ==
    CASE instruction.pc_update = "Regular" ->
            Ok(rel_add_usize(regs.pc, size(instruction)))
      [] instruction.pc_update = "Jump" ->
            IF operands.res = None THEN Err(<<"UnconstrainedResJump">>)
            ELSE IF IsRel(operands.res) THEN Ok(operands.res)
            ELSE Err(<<"ExpectedRelocatable">>)
      [] instruction.pc_update = "JumpRel" ->
            IF operands.res = None THEN Err(<<"UnconstrainedResJumpRel">>)
            ELSE IF IsInt(operands.res) THEN add_int_mod(regs.pc, operands.res.int)
            ELSE Err(<<"PureValue">>)
      [] OTHER ->
            Let(is_zero(operands.dst), LAMBDA z :
                IF ~z.ok THEN z
                ELSE IF ~z.val THEN Ok(rel_add_usize(regs.pc, size(instruction)))
                ELSE add_maybe_mod(regs.pc, operands.op1))

\* Faulty variant of update_pc: a jump with no result moves to the next
\* instruction
new_pc_unconstrained(regs, instruction, operands) ==
    CASE instruction.pc_update = "Regular" ->
            Ok(rel_add_usize(regs.pc, size(instruction)))
      [] instruction.pc_update = "Jump" ->
            IF operands.res = None THEN Ok(rel_add_usize(regs.pc, size(instruction)))
            ELSE IF IsRel(operands.res) THEN Ok(operands.res)
            ELSE Err(<<"ExpectedRelocatable">>)
      [] instruction.pc_update = "JumpRel" ->
            IF operands.res = None THEN Ok(rel_add_usize(regs.pc, size(instruction)))
            ELSE IF IsInt(operands.res) THEN add_int_mod(regs.pc, operands.res.int)
            ELSE Err(<<"PureValue">>)
      [] OTHER ->
            Let(is_zero(operands.dst), LAMBDA z :
                IF ~z.ok THEN z
                ELSE IF z.val THEN Ok(rel_add_usize(regs.pc, size(instruction)))
                ELSE add_maybe_mod(regs.pc, operands.op1))

\* The new pc of VirtualMachine::update_pc
new_pc(regs, instruction, operands) ==
    CASE instruction.pc_update = "Regular" ->
            Ok(rel_add_usize(regs.pc, size(instruction)))
      [] instruction.pc_update = "Jump" ->
            IF operands.res = None THEN Err(<<"UnconstrainedResJump">>)
            ELSE IF IsRel(operands.res) THEN Ok(operands.res)
            ELSE Err(<<"ExpectedRelocatable">>)
      [] instruction.pc_update = "JumpRel" ->
            IF operands.res = None THEN Err(<<"UnconstrainedResJumpRel">>)
            ELSE IF IsInt(operands.res) THEN add_int_mod(regs.pc, operands.res.int)
            ELSE Err(<<"PureValue">>)
      [] OTHER ->
            Let(is_zero(operands.dst), LAMBDA z :
                IF ~z.ok THEN z
                ELSE IF z.val THEN Ok(rel_add_usize(regs.pc, size(instruction)))
                ELSE add_maybe_mod(regs.pc, operands.op1))

\* VirtualMachine::update_pc: the registers with the new pc
update_pc(regs, instruction, operands) ==
    Let(new_pc(regs, instruction, operands), LAMBDA p :
        IF p.ok THEN Ok([regs EXCEPT !.pc = p.val]) ELSE p)

\* Faulty variant of update_registers: ap is updated before fp
update_registers_ap_first(regs, instruction, operands) ==
    Let(update_ap(regs, instruction, operands), LAMBDA a :
        IF ~a.ok THEN [regs |-> regs, ret |-> a]
        ELSE Let(update_fp(a.val, instruction, operands), LAMBDA f :
                 IF ~f.ok THEN [regs |-> a.val, ret |-> f]
                 ELSE Let(update_pc(f.val, instruction, operands), LAMBDA p :
                          IF ~p.ok THEN [regs |-> f.val, ret |-> p]
                          ELSE [regs |-> p.val, ret |-> Ok(None)])))

\* Faulty variant of update_registers: a failing update leaves all three
\* registers as they were
update_registers_all_or_nothing(regs, instruction, operands) ==
    Let(update_fp(regs, instruction, operands), LAMBDA f :
        IF ~f.ok THEN [regs |-> regs, ret |-> f]
        ELSE Let(update_ap(f.val, instruction, operands), LAMBDA a :
                 IF ~a.ok THEN [regs |-> regs, ret |-> a]
                 ELSE Let(update_pc(a.val, instruction, operands), LAMBDA p :
                          IF ~p.ok THEN [regs |-> regs, ret |-> p]
                          ELSE [regs |-> p.val, ret |-> Ok(None)])))

\* VirtualMachine::update_registers: fp, then ap, then pc, each in place:
\* [regs = the registers as left, ret]
update_registers(regs, instruction, operands) ==
    Let(update_fp(regs, instruction, operands), LAMBDA f :
        IF ~f.ok THEN [regs |-> regs, ret |-> f]
        ELSE Let(update_ap(f.val, instruction, operands), LAMBDA a :
                 IF ~a.ok THEN [regs |-> f.val, ret |-> a]
                 ELSE Let(update_pc(a.val, instruction, operands), LAMBDA p :
                          IF ~p.ok THEN [regs |-> a.val, ret |-> p]
                          ELSE [regs |-> p.val, ret |-> Ok(None)])))

----------------------------------------------------------------------------
(* The step (vm/vm_core.rs) *)

\* The registers of a VM
Regs(vm) == [pc |-> vm.pc, ap |-> vm.ap, fp |-> vm.fp]

\* Faulty variant of run_instruction: the step is counted before the
\* registers are updated
record_and_update_counted(vm, instruction, c) ==
    Let(update_registers(Regs(vm), instruction, c.ret.val.operands), LAMBDA u :
        [vm |-> [vm EXCEPT
                   !.memory = c.mem,
                   !.trace = Append(@, [pc |-> vm.pc, ap |-> Rel(1, vm.ap),
                                        fp |-> Rel(1, vm.fp)]),
                   !.accessed_addresses = @ \o c.ret.val.addresses \o <<vm.pc>>,
                   !.pc = u.regs.pc,
                   !.ap = u.regs.ap,
                   !.fp = u.regs.fp,
                   !.current_step = @ + 1],
         ret |-> u.ret,
         out |-> c.ret])

\* Faulty variant of run_instruction: the trace entry holds the registers
\* from after the register update
record_and_update_late_trace(vm, instruction, c) ==
    Let(update_registers(Regs(vm), instruction, c.ret.val.operands), LAMBDA u :
        [vm |-> [vm EXCEPT
                   !.memory = c.mem,
                   !.trace = Append(@, [pc |-> u.regs.pc, ap |-> Rel(1, u.regs.ap),
                                        fp |-> Rel(1, u.regs.fp)]),
                   !.accessed_addresses = @ \o c.ret.val.addresses \o <<vm.pc>>,
                   !.pc = u.regs.pc,
                   !.ap = u.regs.ap,
                   !.fp = u.regs.fp,
                   !.current_step = IF u.ret.ok THEN @ + 1 ELSE @],
         ret |-> u.ret,
         out |-> c.ret])

\* Faulty variant of run_instruction: the instruction's pc is not recorded
\* among the accessed addresses
record_and_update_no_pc(vm, instruction, c) ==
    Let(update_registers(Regs(vm), instruction, c.ret.val.operands), LAMBDA u :
        [vm |-> [vm EXCEPT
                   !.memory = c.mem,
                   !.trace = Append(@, [pc |-> vm.pc, ap |-> Rel(1, vm.ap),
                                        fp |-> Rel(1, vm.fp)]),
                   !.accessed_addresses = @ \o c.ret.val.addresses,
                   !.pc = u.regs.pc,
                   !.ap = u.regs.ap,
                   !.fp = u.regs.fp,
                   !.current_step = IF u.ret.ok THEN @ + 1 ELSE @],
         ret |-> u.ret,
         out |-> c.ret])

\* Faulty variant of run_instruction: the trace entry and the accessed
\* addresses are recorded once the registers were updated
record_and_update_on_success(vm, instruction, c) ==
    Let(update_registers(Regs(vm), instruction, c.ret.val.operands), LAMBDA u :
        [vm |-> [vm EXCEPT
                   !.memory = c.mem,
                   !.trace = IF u.ret.ok
                             THEN Append(@, [pc |-> vm.pc, ap |-> Rel(1, vm.ap),
                                             fp |-> Rel(1, vm.fp)])
                             ELSE @,
                   !.accessed_addresses = IF u.ret.ok
                                          THEN @ \o c.ret.val.addresses \o <<vm.pc>>
                                          ELSE @,
                   !.pc = u.regs.pc,
                   !.ap = u.regs.ap,
                   !.fp = u.regs.fp,
                   !.current_step = IF u.ret.ok THEN @ + 1 ELSE @],
         ret |-> u.ret,
         out |-> c.ret])

\* run_instruction after the opcode assertions: the trace entry, the accessed
\* addresses, the register update and the step counter
record_and_update(vm, instruction, c) ==
    Let(update_registers(Regs(vm), instruction, c.ret.val.operands), LAMBDA u :
        [vm |-> [vm EXCEPT
                   !.memory = c.mem,
                   !.trace = Append(@, [pc |-> vm.pc, ap |-> Rel(1, vm.ap),
                                        fp |-> Rel(1, vm.fp)]),
                   !.accessed_addresses = @ \o c.ret.val.addresses \o <<vm.pc>>,
                   !.pc = u.regs.pc,
                   !.ap = u.regs.ap,
                   !.fp = u.regs.fp,
                   !.current_step = IF u.ret.ok THEN @ + 1 ELSE @],
         ret |-> u.ret,
         out |-> c.ret])

\* Faulty variant of run_instruction: a failing instruction leaves memory as
\* it found it
run_instruction_rolled_back(vm, instruction) ==
    Let(compute_operands(vm.memory, Regs(vm), instruction), LAMBDA c :
        IF ~c.ret.ok
        THEN [vm |-> vm, ret |-> c.ret, out |-> c.ret]
        ELSE Let(opcode_assertions(Regs(vm), instruction, c.ret.val.operands), LAMBDA a :
                 IF ~a.ok
                 THEN [vm |-> vm, ret |-> a, out |-> c.ret]
                 ELSE Let(record_and_update(vm, instruction, c), LAMBDA r :
                          IF r.ret.ok THEN r
                          ELSE [r EXCEPT !.vm.memory = vm.memory])))

\* VirtualMachine::run_instruction: [vm, ret, out = compute_operands' value]
run_instruction(vm, instruction) ==
    Let(compute_operands(vm.memory, Regs(vm), instruction), LAMBDA c :
        IF ~c.ret.ok
        THEN [vm |-> [vm EXCEPT !.memory = c.mem], ret |-> c.ret, out |-> c.ret]
        ELSE Let(opcode_assertions(Regs(vm), instruction, c.ret.val.operands), LAMBDA a :
                 IF ~a.ok
                 THEN [vm |-> [vm EXCEPT !.memory = c.mem], ret |-> a, out |-> c.ret]
                 ELSE record_and_update(vm, instruction, c)))

\* VirtualMachine::get_instruction_encoding: (encoding, optional immediate)
get_instruction_encoding(vm) ==
    IF IsInt(get(vm.memory, vm.pc))
    THEN Ok([encoding |-> get(vm.memory, vm.pc).int,
             imm |-> get(vm.memory, rel_add_usize(vm.pc, 1))])
    ELSE Err(<<"InvalidInstructionEncoding">>)

\* BigInt::to_i64: None when the number does not fit the word
to_i64(num) == IF -(i64_MAX + 1) <= num /\ num <= i64_MAX THEN MInt(num) ELSE None

\* Faulty variant of decode_current_instruction: a word that does not fit is
\* truncated to the word size
decode_current_instruction_truncated(vm) ==
    Let(get_instruction_encoding(vm), LAMBDA e :
        IF ~e.ok THEN e
        ELSE decode_instruction(e.val.encoding % (i64_MAX + 1),
                                IF IsInt(e.val.imm) THEN e.val.imm ELSE None))

\* VirtualMachine::decode_current_instruction
decode_current_instruction(vm) ==
    Let(get_instruction_encoding(vm), LAMBDA e :
        IF ~e.ok THEN e
        ELSE IF to_i64(e.val.encoding) = None THEN Err(<<"InvalidInstructionEncoding">>)
        ELSE decode_instruction(to_i64(e.val.encoding).int,
                                IF IsInt(e.val.imm) THEN e.val.imm ELSE None))

\* The attributes whose span covers the pc offset, in the order of the list
covering(attributes, offset) ==
    SelectSeq(attributes, LAMBDA attr : attr.start_pc <= offset /\ attr.end_pc >= offset)

\* The map_err of step_instruction: the error of run_instruction, wrapped
\* with the text of the first attribute that covers the pc
attr_error_msg(vm, ret) ==
    IF ret.ok \/ covering(vm.error_message_attributes, vm.pc.offset) = <<>>
    THEN ret
    ELSE Err(<<"ErrorMessageAttribute",
               Head(covering(vm.error_message_attributes, vm.pc.offset)).value>>
             \o ret.err)

\* VirtualMachine::step_instruction: [vm, ret, instruction, out]
step_instruction(vm) ==
    Let(decode_current_instruction(vm), LAMBDA d :
        IF ~d.ok THEN [vm |-> vm, ret |-> d, instruction |-> None, out |-> None]
        ELSE Let(run_instruction(vm, d.val), LAMBDA r :
                 [vm |-> r.vm, ret |-> attr_error_msg(r.vm, r.ret),
                  instruction |-> d.val, out |-> r.out]))

\* VirtualMachine::insert_value: [vm, ret]
insert_value(vm, key, val) ==
    Let(insert(vm.memory, key, val), LAMBDA w :
        IF w.ok
        THEN [vm |-> [vm EXCEPT !.memory = w.val], ret |-> Ok(None)]
        ELSE [vm |-> vm, ret |-> WrapErr("MemoryError", w)])

\* HintProcessor::execute_hint: a hint writes a cell or fails
execute_hint(vm, hint_data) ==
    IF hint_data.kind = "insert"
    THEN insert_value(vm, hint_data.addr, hint_data.val)
    ELSE [vm |-> vm, ret |-> Err(<<"CustomHint">>)]

\* Faulty variant of step_hint: the hints after a failing one still run
RECURSIVE step_hint_through(_, _)
step_hint_through(vm, hint_list) ==
    IF hint_list = <<>>
    THEN [vm |-> vm, ret |-> Ok(None)]
    ELSE Let(execute_hint(vm, Head(hint_list)), LAMBDA h :
             IF ~h.ret.ok
             THEN [vm |-> step_hint_through(h.vm, Tail(hint_list)).vm, ret |-> h.ret]
             ELSE step_hint_through(h.vm, Tail(hint_list)))

\* VirtualMachine::step_hint: the hints of the current pc, in order: [vm, ret]
RECURSIVE step_hint(_, _)
step_hint(vm, hint_list) ==
    IF hint_list = <<>>
    THEN [vm |-> vm, ret |-> Ok(None)]
    ELSE Let(execute_hint(vm, Head(hint_list)), LAMBDA h :
             IF ~h.ret.ok THEN h ELSE step_hint(h.vm, Tail(hint_list)))

\* VirtualMachine::step: [vm, ret, instruction, out, hinted = the memory the
\* instruction started from]
step(vm, hint_list) ==
    Let(step_hint(vm, hint_list), LAMBDA h :
        IF ~h.ret.ok
        THEN [vm |-> h.vm, ret |-> h.ret, instruction |-> None, out |-> None,
              hinted |-> h.vm.memory]
        ELSE Let(step_instruction(h.vm), LAMBDA r :
                 [vm |-> r.vm, ret |-> r.ret, instruction |-> r.instruction,
                  out |-> r.out, hinted |-> h.vm.memory]))

----------------------------------------------------------------------------
(* End of run (vm/vm_core.rs) *)

\* Faulty variant of verify_auto_deductions: a deduction is compared with the
\* cell even when the cell is unassigned
RECURSIVE verify_auto_deductions_unassigned(_, _, _)
verify_auto_deductions_unassigned(i, offset, mem) ==
    IF i > Len(builtin_runners) THEN Ok(None)
    ELSE IF offset >= segment_len(mem, builtin_runners[i].base)
    THEN verify_auto_deductions_unassigned(i + 1, 0, mem)
    ELSE Let(builtin_deduce_memory_cell(builtin_runners[i],
                                        Rel(builtin_runners[i].base, offset), mem),
             LAMBDA d :
                 IF ~d.ok THEN WrapErr("RunnerError", d)
                 ELSE IF d.val # None
                         /\ d.val # get(mem, Rel(builtin_runners[i].base, offset))
                 THEN Err(<<"InconsistentAutoDeduction", builtin_runners[i].name, d.val,
                            get(mem, Rel(builtin_runners[i].base, offset))>>)
                 ELSE verify_auto_deductions_unassigned(i, offset + 1, mem))

\* VirtualMachine::verify_auto_deductions, from builtin i and offset on
RECURSIVE verify_auto_deductions_from(_, _, _)
verify_auto_deductions_from(i, offset, mem) ==
    IF i > Len(builtin_runners) THEN Ok(None)
    ELSE IF builtin_runners[i].base < 0
    THEN Err(<<"MemoryError", "AddressInTemporarySegment", builtin_runners[i].base>>)
    ELSE IF offset >= segment_len(mem, builtin_runners[i].base)
    THEN verify_auto_deductions_from(i + 1, 0, mem)
    ELSE Let(builtin_deduce_memory_cell(builtin_runners[i],
                                        Rel(builtin_runners[i].base, offset), mem),
             LAMBDA d :
                 IF ~d.ok THEN WrapErr("RunnerError", d)
                 ELSE IF d.val # None
                         /\ d.val # get(mem, Rel(builtin_runners[i].base, offset))
                         /\ get(mem, Rel(builtin_runners[i].base, offset)) # None
                 THEN Err(<<"InconsistentAutoDeduction", builtin_runners[i].name, d.val,
                            get(mem, Rel(builtin_runners[i].base, offset))>>)
                 ELSE verify_auto_deductions_from(i, offset + 1, mem))

verify_auto_deductions(vm) == verify_auto_deductions_from(1, 0, vm.memory)

\* Faulty variant of end_run: the scope stack is checked before the
\* verification
end_run_scopes_first(vm, scopes_len) ==
    IF scopes_len # 1 THEN Err(<<"MainScopeError", "NoScopeError">>)
    ELSE verify_auto_deductions(vm)

\* VirtualMachine::end_run, given the depth of the scope stack
end_run(vm, scopes_len) ==
    Let(verify_auto_deductions(vm), LAMBDA v :
        IF ~v.ok THEN v
        ELSE IF scopes_len = 1 THEN Ok(None)
        ELSE Err(<<"MainScopeError", "NoScopeError">>))

----------------------------------------------------------------------------
(* The state machine *)

VM == [memory |-> memory, pc |-> pc, ap |-> ap, fp |-> fp,
       current_step |-> current_step, trace |-> trace,
       accessed_addresses |-> accessed_addresses,
       error_message_attributes |-> error_message_attributes]

SetVM(vm) ==
    /\ memory' = vm.memory
    /\ pc' = vm.pc
    /\ ap' = vm.ap
    /\ fp' = vm.fp
    /\ current_step' = vm.current_step
    /\ trace' = vm.trace
    /\ accessed_addresses' = vm.accessed_addresses
    /\ UNCHANGED <<error_message_attributes, num_segments, num_temp_segments,
                   relocation_rules, builtin_runners>>

\* The program loaded in segment 0
ProgramMemory ==
    [a \in {Rel(0, o) : o \in 0..(Len(Program) - 1)} |-> MInt(Program[a.offset + 1])]

\* A memory holding `base` and the assigned cells of `cells` (address -> value or None)
WithCells(base, cells) ==
    [a \in DOMAIN base \cup {b \in DOMAIN cells : cells[b] # None} |->
        IF a \in DOMAIN cells /\ cells[a] # None THEN cells[a] ELSE base[a]]

\* The cells and registers the model keeps: offsets within the bounds (fp may
\* be set two past an ap within the bounds)
WithinBounds(vm) ==
    /\ \A a \in DOMAIN vm.memory :
          \/ a.segment_index = 0 /\ a.offset < Len(Program)
          \/ a.segment_index = 1 /\ a.offset <= MaxOffset
          \/ a.segment_index = 2 /\ a.offset <= MaxBuiltinOffset
    /\ vm.ap <= MaxOffset
    /\ vm.fp <= MaxOffset + 2

\* Values a loader or hint writes in the execution segment
InputValues == {MInt(0), MInt(2), MInt(3), Rel(2, 0)}

\* The hint lists registered at a pc
HintLists == { <<>>,
               << [kind |-> "fail"] >>,
               << [kind |-> "insert", addr |-> Rel(1, 2), val |-> MInt(2)] >> }

\* VirtualMachine::new, then the loader: the program, an initial stack and
\* possibly the inputs of the first builtin instance
Init ==
    /\ \E cells \in [{Rel(1, o) : o \in 0..(MaxOffset - 1)} -> InputValues \cup {None}] :
       \E inputs \in {<<None, None>>, <<MInt(3), MInt(1)>>} :
          memory = WithCells(WithCells(ProgramMemory, cells),
                             [a \in {Rel(2, 0), Rel(2, 1)} |-> inputs[a.offset + 1]])
    /\ pc \in {Rel(0, o) : o \in 0..(Len(Program) - 1)} \cup {Rel(1, 0)}
    /\ ap \in {0, 2}
    /\ fp = ap
    /\ current_step = 0
    /\ trace = <<>>
    /\ accessed_addresses = <<>>
    /\ error_message_attributes = <<>>
    /\ num_segments = 3
    /\ num_temp_segments = 0
    /\ relocation_rules = <<>>
    /\ builtin_runners = BitwiseRunners
    /\ result = [op |-> "new"]

\* The cells absent when the instruction started: 1 = dst, 2 = op0, 3 = op1
absent_operands(mem, regs, instruction) ==
    IF instruction = None THEN {}
    ELSE Let(operand_addresses(mem, regs, instruction), LAMBDA a :
             IF a.ok THEN {i \in 1..3 : get(mem, a.val[i]) = None} ELSE {})

\* vm.step(hint_executor, exec_scopes, hint_data_dictionary, constants)
Step ==
    /\ Len(trace) < MaxSteps
    /\ result.op # "end_run"
    /\ \E hint_list \in HintLists :
       \E r \in {step(VM, hint_list)} :
          /\ WithinBounds(r.vm)
          /\ SetVM(r.vm)
          /\ result' = [op |-> "step",
                        hint_list |-> hint_list,
                        pre |-> Regs(VM),
                        instruction |-> r.instruction,
                        absent |-> absent_operands(r.hinted, Regs(VM), r.instruction),
                        out |-> r.out,
                        ret |-> r.ret]

\* vm.insert_value(key, val)
InsertValue ==
    /\ result.op # "end_run"
    /\ \E key \in {Rel(1, 0), Rel(1, 1)}, val \in {MInt(0), MInt(3)} :
       \E r \in {insert_value(VM, key, val)} :
          /\ WithinBounds(r.vm)
          /\ SetVM(r.vm)
          /\ result' = [op |-> "insert_value", key |-> key, val |-> val, ret |-> r.ret]

\* vm.end_run(exec_scopes)
EndRun ==
    /\ result.op # "end_run"
    /\ \E scopes_len \in 0..2 :
          /\ result' = [op |-> "end_run", scopes_len |-> scopes_len,
                        ret |-> end_run(VM, scopes_len)]
          /\ UNCHANGED <<memory, pc, ap, fp, current_step, trace, accessed_addresses,
                         error_message_attributes, num_segments, num_temp_segments,
                         relocation_rules, builtin_runners>>

Next == Step \/ InsertValue \/ EndRun

Spec == Init /\ [][Next]_vars

----------------------------------------------------------------------------
(* Operand deduction next to a builtin: steps, and compute_op0_deductions    *)
(* applied to a cell of the builtin segment                                  *)

\* Cells compute_op0_deductions is asked to deduce
Op0Addresses == {Rel(2, 2), Rel(2, 3), Rel(1, MaxOffset)}

\* self.compute_op0_deductions(&op0_addr, &mut res, &instruction, &dst_op, &op1_op)
\* for the instruction at pc and an unassigned op0 cell, on the VM as loaded
ComputeOp0Deductions ==
    /\ result.op = "new"
    /\ decode_current_instruction(VM).ok
    /\ \E op0_addr \in Op0Addresses, op1_op \in {None, MInt(2)} :
       \E instruction \in {decode_current_instruction(VM).val} :
       \E dst_addr \in {compute_dst_addr(Regs(VM), instruction)} :
       \E dst_op \in {IF dst_addr.ok THEN get(memory, dst_addr.val) ELSE None} :
       \E r \in {compute_op0_deductions(memory, Regs(VM), op0_addr, None, instruction,
                                        dst_op, op1_op)} :
          /\ get(memory, op0_addr) = None
          /\ WithinBounds([VM EXCEPT !.memory = r.mem])
          /\ memory' = r.mem
          /\ result' = [op |-> "compute_op0_deductions",
                        op0_addr |-> op0_addr,
                        instruction |-> instruction,
                        dst_op |-> dst_op,
                        op1_op |-> op1_op,
                        ret |-> r.ret]
          /\ UNCHANGED <<pc, ap, fp, current_step, trace, accessed_addresses,
                         error_message_attributes, num_segments, num_temp_segments,
                         relocation_rules, builtin_runners>>

NextOperands == Step \/ ComputeOp0Deductions

SpecOperands == Init /\ [][NextOperands]_vars

----------------------------------------------------------------------------
(* Arithmetic on operands of any size: steps over a stack that holds field  *)
(* elements up to Prime - 1                                                  *)

\* Values of the stack cells: small and large field elements and an address
ResValues == {MInt(2), MInt(3), MInt(Prime - 1), Rel(2, 0)}

\* The offsets of the program words whose result is Add, Mul, Op1 or
\* Unconstrained over [fp+1] and [fp+2]
ResOffsets == {o \in 0..(Len(Program) - 1) :
                  /\ Program[o + 1] < Len(InstructionSet)
                  /\ InstructionSet[Program[o + 1] + 1].op0_register = "FP"
                  /\ InstructionSet[Program[o + 1] + 1].off1 = 1
                  /\ InstructionSet[Program[o + 1] + 1].op1_addr = "FP"
                  /\ InstructionSet[Program[o + 1] + 1].off2 = 2}

\* The program, and a stack of three cells each assigned or not
InitRes ==
    /\ \E cells \in [{Rel(1, o) : o \in 0..(MaxOffset - 1)} -> ResValues \cup {None}] :
          memory = WithCells(ProgramMemory, cells)
    /\ pc \in {Rel(0, o) : o \in ResOffsets}
    /\ ap = 0
    /\ fp = 0
    /\ current_step = 0
    /\ trace = <<>>
    /\ accessed_addresses = <<>>
    /\ error_message_attributes = <<>>
    /\ num_segments = 3
    /\ num_temp_segments = 0
    /\ relocation_rules = <<>>
    /\ builtin_runners = BitwiseRunners
    /\ result = [op |-> "new"]

NextRes == Step

SpecRes == InitRes /\ [][NextRes]_vars

----------------------------------------------------------------------------
(* Returns over a frame whose saved fp is any value a cell can hold *)

\* What the cells of a frame may hold: Ints below, at and above the bounds of
\* the conversion to usize, and addresses
FrameValues == {MInt(0 - 1), MInt(MaxOffset), MInt(i64_MAX), MInt(i64_MAX + 1),
                Rel(0, 0), Rel(1, 1)}

\* The offsets of the program words whose fp update is Dst
FrameOffsets == {o \in 0..(Len(Program) - 1) :
                    /\ Program[o + 1] < Len(InstructionSet)
                    /\ InstructionSet[Program[o + 1] + 1].fp_update = "Dst"}

\* The program, pc at a ret, and a frame of two cells each assigned or not
InitFrame ==
    /\ \E cells \in [{Rel(1, o) : o \in 0..1} -> FrameValues \cup {None}] :
          memory = WithCells(ProgramMemory, cells)
    /\ pc \in {Rel(0, o) : o \in FrameOffsets}
    /\ ap = 2
    /\ fp = 2
    /\ current_step = 0
    /\ trace = <<>>
    /\ accessed_addresses = <<>>
    /\ error_message_attributes = <<>>
    /\ num_segments = 3
    /\ num_temp_segments = 0
    /\ relocation_rules = <<>>
    /\ builtin_runners = BitwiseRunners
    /\ result = [op |-> "new"]

\* vm.step(..) with no hint, wherever it leaves the registers
StepFrame ==
    /\ current_step < MaxSteps
    /\ Len(trace) <= MaxSteps
    /\ \E r \in {step(VM, <<>>)} :
          /\ SetVM(r.vm)
          /\ result' = [op |-> "step",
                        hint_list |-> <<>>,
                        pre |-> Regs(VM),
                        instruction |-> r.instruction,
                        absent |-> absent_operands(r.hinted, Regs(VM), r.instruction),
                        out |-> r.out,
                        ret |-> r.ret]

NextFrame == StepFrame

SpecFrame == InitFrame /\ [][NextFrame]_vars

----------------------------------------------------------------------------
(* Steps at a pc with several hints registered *)

\* The hint lists registered at a pc: none, one hint, or two in either order
HintSequences ==
    HintLists \cup
    { << [kind |-> "insert", addr |-> Rel(1, 2), val |-> MInt(2)], [kind |-> "fail"] >>,
      << [kind |-> "fail"], [kind |-> "insert", addr |-> Rel(1, 2), val |-> MInt(2)] >>,
      << [kind |-> "insert", addr |-> Rel(1, 1), val |-> MInt(3)],
         [kind |-> "insert", addr |-> Rel(1, 2), val |-> MInt(2)] >>,
      << [kind |-> "insert", addr |-> Rel(1, 2), val |-> MInt(3)],
         [kind |-> "insert", addr |-> Rel(1, 2), val |-> MInt(2)] >> }

\* The program, and a stack of three cells each assigned or not
InitHints ==
    /\ \E cells \in [{Rel(1, o) : o \in 0..(MaxOffset - 1)} -> {None, MInt(2), MInt(3)}] :
          memory = WithCells(ProgramMemory, cells)
    /\ pc \in {Rel(0, o) : o \in 0..(Len(Program) - 1)}
    /\ ap = 0
    /\ fp = 0
    /\ current_step = 0
    /\ trace = <<>>
    /\ accessed_addresses = <<>>
    /\ error_message_attributes = <<>>
    /\ num_segments = 3
    /\ num_temp_segments = 0
    /\ relocation_rules = <<>>
    /\ builtin_runners = BitwiseRunners
    /\ result = [op |-> "new"]

\* vm.step(hint_executor, exec_scopes, hint_data_dictionary, constants) with
\* the hints of hint_data_dictionary[pc.offset]
StepHinted ==
    /\ Len(trace) < MaxSteps
    /\ \E hint_list \in HintSequences :
       \E r \in {step(VM, hint_list)} :
          /\ WithinBounds(r.vm)
          /\ SetVM(r.vm)
          /\ result' = [op |-> "step",
                        hint_list |-> hint_list,
                        pre |-> Regs(VM),
                        instruction |-> r.instruction,
                        absent |-> absent_operands(r.hinted, Regs(VM), r.instruction),
                        out |-> r.out,
                        ret |-> r.ret]

NextHints == StepHinted

SpecHints == InitHints /\ [][NextHints]_vars

----------------------------------------------------------------------------
(* Reading the values a function left below ap *)

\* Memory::get_continuous_range: the values of n cells from addr on, with
\* no hole among them
get_continuous_range(mem, addr, n) ==
    IF \E i \in 0..(n - 1) : get(mem, Rel(addr.segment_index, addr.offset + i)) = None
    THEN Err(<<"GetRangeMemoryGap">>)
    ELSE Ok([i \in 1..n |-> get(mem, Rel(addr.segment_index, addr.offset + i - 1))])

\* Faulty variant of get_return_values: a count above ap is cut down to ap
get_return_values_saturating(vm, n_ret) ==
    IF vm.ap < n_ret
    THEN get_continuous_range(vm.memory, Rel(1, 0), vm.ap)
    ELSE get_continuous_range(vm.memory, Rel(1, vm.ap - n_ret), n_ret)

\* VirtualMachine::get_return_values
get_return_values(vm, n_ret) ==
    IF vm.ap < n_ret
    THEN Err(<<"NumOutOfBounds">>)
    ELSE get_continuous_range(vm.memory, Rel(1, vm.ap - n_ret), n_ret)

\* The program, a stack of three cells each assigned or not, and ap anywhere
\* on it
InitReturn ==
    /\ \E cells \in [{Rel(1, o) : o \in 0..(MaxOffset - 1)} -> InputValues \cup {None}] :
          memory = WithCells(ProgramMemory, cells)
    /\ pc = Rel(0, 0)
    /\ ap \in 0..MaxOffset
    /\ fp = 0
    /\ current_step = 0
    /\ trace = <<>>
    /\ accessed_addresses = <<>>
    /\ error_message_attributes = <<>>
    /\ num_segments = 3
    /\ num_temp_segments = 0
    /\ relocation_rules = <<>>
    /\ builtin_runners = BitwiseRunners
    /\ result = [op |-> "new"]

\* vm.get_return_values(n_ret)
GetReturnValues ==
    /\ \E n_ret \in 0..(MaxOffset + 1) :
          result' = [op |-> "get_return_values", n_ret |-> n_ret,
                     ret |-> get_return_values(VM, n_ret)]
    /\ UNCHANGED <<memory, pc, ap, fp, current_step, trace, accessed_addresses,
                   error_message_attributes, num_segments, num_temp_segments,
                   relocation_rules, builtin_runners>>

NextReturn == GetReturnValues

SpecReturn == InitReturn /\ [][NextReturn]_vars

----------------------------------------------------------------------------
(* A run with error-message attributes configured *)

\* The attributes of the program: two spans that overlap at offset 4 and
\* leave offsets 0 and 1 uncovered
Attributes ==
    << [start_pc |-> 2, end_pc |-> 4, value |-> "first"],
       [start_pc |-> 4, end_pc |-> Len(Program) - 1, value |-> "second"] >>

\* VirtualMachine::new with the attributes, then the loader
InitAttributes ==
    /\ \E cells \in [{Rel(1, o) : o \in 0..(MaxOffset - 1)} -> InputValues \cup {None}] :
          memory = WithCells(ProgramMemory, cells)
    /\ pc \in {Rel(0, o) : o \in 0..(Len(Program) - 1)}
    /\ ap = 0
    /\ fp = 0
    /\ current_step = 0
    /\ trace = <<>>
    /\ accessed_addresses = <<>>
    /\ error_message_attributes = Attributes
    /\ num_segments = 3
    /\ num_temp_segments = 0
    /\ relocation_rules = <<>>
    /\ builtin_runners = BitwiseRunners
    /\ result = [op |-> "new"]

NextAttributes == Step \/ InsertValue \/ EndRun

SpecAttributes == InitAttributes /\ [][NextAttributes]_vars

----------------------------------------------------------------------------
(* Segments and relocation rules (vm_memory/memory_segments.rs,             *)
(* vm_memory/memory.rs), as a host uses them on a fresh VM                  *)

\* MemorySegmentManager::add: [num_segments, ret = the base of the new segment]
segments_add(n) == [num_segments |-> n + 1, ret |-> Rel(n, 0)]

\* Faulty variant of add_temporary_segment: the index is taken after the
\* segments of both kinds
segments_add_temporary_segment_shared(n_temp, n) ==
    [num_temp_segments |-> n_temp + 1, ret |-> Rel(-(n_temp + n + 1), 0)]

\* MemorySegmentManager::add_temporary_segment: [num_temp_segments, ret]
segments_add_temporary_segment(n_temp, n) ==
    [num_temp_segments |-> n_temp + 1, ret |-> Rel(-(n_temp + 1), 0)]

\* Faulty variant of add_relocation_rule: a second rule replaces the first
memory_add_relocation_rule_overwrite(rules, src_ptr, dst_ptr) ==
    IF src_ptr.segment_index >= 0
    THEN [rules |-> rules,
          ret |-> Err(<<"AddressNotInTemporarySegment", src_ptr.segment_index>>)]
    ELSE IF src_ptr.offset # 0
    THEN [rules |-> rules, ret |-> Err(<<"NonZeroOffset", src_ptr.offset>>)]
    ELSE [rules |-> [i \in DOMAIN rules \cup {-src_ptr.segment_index} |->
                       IF i = -src_ptr.segment_index THEN dst_ptr ELSE rules[i]],
          ret |-> Ok(None)]

\* Memory::add_relocation_rule: [rules, ret]; the rule of segment -i is rules[i]
memory_add_relocation_rule(rules, src_ptr, dst_ptr) ==
    IF src_ptr.segment_index >= 0
    THEN [rules |-> rules,
          ret |-> Err(<<"AddressNotInTemporarySegment", src_ptr.segment_index>>)]
    ELSE IF src_ptr.offset # 0
    THEN [rules |-> rules, ret |-> Err(<<"NonZeroOffset", src_ptr.offset>>)]
    ELSE IF -src_ptr.segment_index \in DOMAIN rules
    THEN [rules |-> rules,
          ret |-> Err(<<"DuplicatedRelocation", src_ptr.segment_index>>)]
    ELSE [rules |-> [i \in DOMAIN rules \cup {-src_ptr.segment_index} |->
                       IF i = -src_ptr.segment_index THEN dst_ptr ELSE rules[i]],
          ret |-> Ok(None)]

\* VirtualMachine::new: no segment, no rule
InitSegments ==
    /\ memory = <<>>
    /\ pc = Rel(0, 0)
    /\ ap = 0
    /\ fp = 0
    /\ current_step = 0
    /\ trace = <<>>
    /\ accessed_addresses = <<>>
    /\ error_message_attributes = <<>>
    /\ num_segments = 0
    /\ num_temp_segments = 0
    /\ relocation_rules = <<>>
    /\ builtin_runners = BitwiseRunners
    /\ result = [op |-> "new"]

\* vm.add_memory_segment()
AddMemorySegment ==
    /\ num_segments < MaxSegments
    /\ \E r \in {segments_add(num_segments)} :
          /\ num_segments' = r.num_segments
          /\ result' = [op |-> "add_memory_segment", ret |-> r.ret]
    /\ UNCHANGED <<memory, pc, ap, fp, current_step, trace, accessed_addresses,
                   error_message_attributes, num_temp_segments, relocation_rules, builtin_runners>>

\* vm.add_temporary_segment()
AddTemporarySegment ==
    /\ num_temp_segments < MaxSegments
    /\ \E r \in {segments_add_temporary_segment(num_temp_segments, num_segments)} :
          /\ num_temp_segments' = r.num_temp_segments
          /\ result' = [op |-> "add_temporary_segment", ret |-> r.ret]
    /\ UNCHANGED <<memory, pc, ap, fp, current_step, trace, accessed_addresses,
                   error_message_attributes, num_segments, relocation_rules, builtin_runners>>

\* Source and destination addresses a host passes to add_relocation_rule
RuleSources == {Rel(-1, 0), Rel(-2, 0), Rel(-1, 1), Rel(0, 0), Rel(1, 1)}
RuleDestinations == {Rel(1, 2), Rel(-1, 1)}

\* vm.add_relocation_rule(src_ptr, dst_ptr)
AddRelocationRule ==
    /\ \E src_ptr \in RuleSources, dst_ptr \in RuleDestinations :
       \E r \in {memory_add_relocation_rule(relocation_rules, src_ptr, dst_ptr)} :
          /\ relocation_rules' = r.rules
          /\ result' = [op |-> "add_relocation_rule", src_ptr |-> src_ptr,
                        dst_ptr |-> dst_ptr, ret |-> r.ret]
    /\ UNCHANGED <<memory, pc, ap, fp, current_step, trace, accessed_addresses,
                   error_message_attributes, num_segments, num_temp_segments,
                   builtin_runners>>

NextSegments == AddMemorySegment \/ AddTemporarySegment \/ AddRelocationRule

SpecSegments == InitSegments /\ [][NextSegments]_vars

----------------------------------------------------------------------------
(* The builtin segment on its own: inputs as loaded, outputs written by the *)
(* host, and the deductions and the end-of-run verification applied to it   *)

\* Values found in the input cells of a bitwise instance
BuiltinInputValues == {MInt(1), MInt(3), MInt(6), Rel(1, 0)}

\* Values a host writes in the output cells of a bitwise instance
BuiltinOutputValues == {MInt(1), MInt(3)}

\* The offsets of the builtin segment, and those of output cells
BuiltinOffsets == 0..MaxBuiltinOffset
OutputOffsets == {o \in BuiltinOffsets : o % cells_per_instance >= 2}

\* The program, and the inputs of the first two bitwise instances
InitBuiltin ==
    /\ \E first \in [{Rel(2, 0), Rel(2, 1)} -> BuiltinInputValues \cup {None}] :
       \E second \in {<<None, None>>, <<MInt(1), MInt(3)>>} :
          memory = WithCells(WithCells(ProgramMemory, first),
                             [a \in {Rel(2, cells_per_instance),
                                     Rel(2, cells_per_instance + 1)} |->
                                 second[a.offset - cells_per_instance + 1]])
    /\ pc = Rel(0, 0)
    /\ ap = 0
    /\ fp = 0
    /\ current_step = 0
    /\ trace = <<>>
    /\ accessed_addresses = <<>>
    /\ error_message_attributes = <<>>
    /\ num_segments = 3
    /\ num_temp_segments = 0
    /\ relocation_rules = <<>>
    /\ builtin_runners = BitwiseRunners
    /\ result = [op |-> "new"]

\* vm.insert_value(key, val) on an output cell of the builtin segment
InsertOutput ==
    \E o \in OutputOffsets, val \in BuiltinOutputValues :
    \E r \in {insert_value(VM, Rel(2, o), val)} :
       /\ SetVM(r.vm)
       /\ result' = [op |-> "insert_value", key |-> Rel(2, o), val |-> val, ret |-> r.ret]

\* vm.deduce_memory_cell(address), and the builtin's own answer
DeduceMemoryCell ==
    \E address \in {Rel(2, o) : o \in BuiltinOffsets} \cup {Rel(1, 0)} :
    \E r \in {deduce_memory_cell_call(VM, address)} :
       /\ SetVM(r.vm)
       /\ result' = [op |-> "deduce_memory_cell",
                     address |-> address,
                     builtin |-> bitwise_deduce_memory_cell(address, memory),
                     ret |-> r.ret]

\* vm.verify_auto_deductions()
VerifyAutoDeductions ==
    /\ result' = [op |-> "verify_auto_deductions", ret |-> verify_auto_deductions(VM)]
    /\ UNCHANGED <<memory, pc, ap, fp, current_step, trace, accessed_addresses,
                   error_message_attributes, num_segments, num_temp_segments,
                   relocation_rules, builtin_runners>>

NextBuiltin == InsertOutput \/ DeduceMemoryCell \/ VerifyAutoDeductions \/ EndRun

SpecBuiltin == InitBuiltin /\ [][NextBuiltin]_vars

----------------------------------------------------------------------------
(* Several builtins registered: which one a cell is routed to               *)

\* vm.builtin_runners as a runner leaves it: no builtin, one, or two whose
\* segments were allocated in either order
RunnerLists ==
    { <<>>,
      << [name |-> "bitwise", base |-> 2] >>,
      << [name |-> "bitwise", base |-> 3] >>,
      << [name |-> "bitwise", base |-> 2], [name |-> "bitwise", base |-> 3] >>,
      << [name |-> "bitwise", base |-> 3], [name |-> "bitwise", base |-> 2] >> }

\* The first two cells of segments 1, 2 and 3 as loaded
InitRouting ==
    /\ \E stack \in {<<None, None>>, <<MInt(3), MInt(3)>>} :
       \E first \in [{Rel(2, 0), Rel(2, 1)} -> {None, MInt(1), MInt(3), MInt(6)}] :
       \E second \in {<<None, None>>, <<MInt(3), MInt(1)>>, <<MInt(6), MInt(1)>>} :
          memory = WithCells(WithCells(WithCells(ProgramMemory,
                       [a \in {Rel(1, 0), Rel(1, 1)} |-> stack[a.offset + 1]]),
                       first),
                       [a \in {Rel(3, 0), Rel(3, 1)} |-> second[a.offset + 1]])
    /\ pc = Rel(0, 0)
    /\ ap = 0
    /\ fp = 0
    /\ current_step = 0
    /\ trace = <<>>
    /\ accessed_addresses = <<>>
    /\ error_message_attributes = <<>>
    /\ num_segments = 4
    /\ num_temp_segments = 0
    /\ relocation_rules = <<>>
    /\ builtin_runners \in RunnerLists
    /\ result = [op |-> "new"]

\* Cells asked for: inputs and outputs of the first instance of each segment
RoutedAddresses == {Rel(s, o) : s \in 1..3, o \in {0, 2, 3, 4}}

\* vm.deduce_memory_cell(address) with the registered builtins
RouteMemoryCell ==
    \E address \in RoutedAddresses :
    \E r \in {deduce_memory_cell_call(VM, address)} :
       /\ SetVM(r.vm)
       /\ result' = [op |-> "deduce_memory_cell", address |-> address, ret |-> r.ret]

NextRouting == RouteMemoryCell

SpecRouting == InitRouting /\ [][NextRouting]_vars

----------------------------------------------------------------------------
(* The end of a run for the bitwise builtin: the stop pointer a program     *)
(* leaves on the stack is reconciled with the cells the builtin used        *)
(* (runners/builtin_runner/bitwise.rs)                                      *)

\* Memory::get_relocatable: the Addr stored at key
get_relocatable(mem, key) ==
    IF IsRel(get(mem, key)) THEN Ok(get(mem, key)) ELSE Err(<<"ExpectedRelocatable">>)

\* MemorySegmentManager::get_segment_used_size: Option<usize>, known once
\* the effective sizes were computed
get_segment_used_size(computed, mem, index) ==
    IF computed THEN [some |-> segment_len(mem, index)] ELSE None

\* BitwiseBuiltinRunner::get_used_cells
get_used_cells(builtin, computed, mem) ==
    IF get_segment_used_size(computed, mem, builtin.base) = None
    THEN Err(<<"MissingSegmentUsedSizes">>)
    ELSE Ok(get_segment_used_size(computed, mem, builtin.base).some)

\* div_ceil
div_ceil(a, b) == (a + b - 1) \div b

\* BitwiseBuiltinRunner::get_used_instances
get_used_instances(builtin, computed, mem) ==
    Let(get_used_cells(builtin, computed, mem), LAMBDA used_cells :
        IF used_cells.ok THEN Ok(div_ceil(used_cells.val, cells_per_instance))
        ELSE used_cells)

\* Faulty variant of final_stack: the stop pointer is compared with the used
\* cells, not rounded up to whole instances
bitwise_final_stack_exact(builtin, included, computed, mem, pointer) ==
    IF included
    THEN Let(sub(pointer, MInt(1)), LAMBDA p :
         IF ~p.ok THEN Err(<<"FinalStack">>)
         ELSE Let(get_relocatable(mem, p.val), LAMBDA stop_pointer :
         IF ~stop_pointer.ok THEN Err(<<"FinalStack">>)
         ELSE IF builtin.base # stop_pointer.val.segment_index
         THEN Err(<<"InvalidStopPointer", builtin.name>>)
         ELSE Let(get_used_cells(builtin, computed, mem), LAMBDA used_cells :
              IF ~used_cells.ok THEN Err(<<"FinalStack">>)
              ELSE IF stop_pointer.val.offset # used_cells.val
              THEN Err(<<"InvalidStopPointer", builtin.name>>)
              ELSE Ok(<<p.val, stop_pointer.val.offset>>))))
    ELSE Ok(<<pointer, builtin.base>>)

\* BitwiseBuiltinRunner::final_stack: (the pointer below the stop pointer,
\* the stop offset)
bitwise_final_stack(builtin, included, computed, mem, pointer) ==
    IF included
    THEN Let(sub(pointer, MInt(1)), LAMBDA p :
         IF ~p.ok THEN Err(<<"FinalStack">>)
         ELSE Let(get_relocatable(mem, p.val), LAMBDA stop_pointer :
         IF ~stop_pointer.ok THEN Err(<<"FinalStack">>)
         ELSE IF builtin.base # stop_pointer.val.segment_index
         THEN Err(<<"InvalidStopPointer", builtin.name>>)
         ELSE Let(get_used_instances(builtin, computed, mem), LAMBDA num_instances :
              IF ~num_instances.ok THEN Err(<<"FinalStack">>)
              ELSE IF stop_pointer.val.offset # num_instances.val * cells_per_instance
              THEN Err(<<"InvalidStopPointer", builtin.name>>)
              ELSE Ok(<<p.val, stop_pointer.val.offset>>))))
    ELSE Ok(<<pointer, builtin.base>>)

\* BitwiseInstanceDef.ratio: steps per builtin instance (256 in the default
\* layout), and the runner's instances_per_component
ratio == 2
instances_per_component == 1

\* math_utils::safe_div_usize: the quotient of an exact division
safe_div_usize(x, y) ==
    IF y = 0 THEN Err(<<"DividedByZero">>)
    ELSE IF x % y # 0 THEN Err(<<"SafeDivFailUsize", x, y>>)
    ELSE Ok(x \div y)

\* Faulty variant of get_used_cells_and_allocated_size: the used cells are
\* not compared with the allocated size
get_used_cells_and_allocated_size_unchecked(builtin, computed, mem, steps) ==
    IF steps < ratio * instances_per_component
    THEN Err(<<"InsufficientAllocatedCells">>)
    ELSE Let(get_used_cells(builtin, computed, mem), LAMBDA used :
             IF ~used.ok THEN used
             ELSE Let(safe_div_usize(steps, ratio), LAMBDA q :
                      IF ~q.ok THEN Err(<<"InsufficientAllocatedCells">>)
                      ELSE Ok(<<used.val, cells_per_instance * q.val>>)))

\* BitwiseBuiltinRunner::get_used_cells_and_allocated_size, at vm.current_step
\* = steps
get_used_cells_and_allocated_size(builtin, computed, mem, steps) ==
    IF steps < ratio * instances_per_component
    THEN Err(<<"InsufficientAllocatedCells">>)
    ELSE Let(get_used_cells(builtin, computed, mem), LAMBDA used :
             IF ~used.ok THEN used
             ELSE Let(safe_div_usize(steps, ratio), LAMBDA q :
                      IF ~q.ok THEN Err(<<"InsufficientAllocatedCells">>)
                      ELSE IF used.val > cells_per_instance * q.val
                      THEN Err(<<"InsufficientAllocatedCells">>)
                      ELSE Ok(<<used.val, cells_per_instance * q.val>>)))

\* A VM that has run current_step steps, of which only the counter and the
\* highest cell written in the builtin segment are kept
InitAllocation ==
    /\ \E used \in 0..(MaxBuiltinOffset + 1) :
          memory = WithCells(ProgramMemory,
                             [a \in {Rel(2, o) : o \in 0..MaxBuiltinOffset} |->
                                 IF a.offset = used - 1 THEN MInt(1) ELSE None])
    /\ pc = Rel(0, 0)
    /\ ap = 0
    /\ fp = 0
    /\ current_step \in 0..MaxCurrentStep
    /\ trace = <<>>
    /\ accessed_addresses = <<>>
    /\ error_message_attributes = <<>>
    /\ num_segments = 3
    /\ num_temp_segments = 0
    /\ relocation_rules = <<>>
    /\ builtin_runners = BitwiseRunners
    /\ result = [op |-> "new"]

\* builtin.get_used_cells_and_allocated_size(&vm), before or after the
\* effective sizes were computed
GetUsedCellsAndAllocatedSize ==
    /\ \E computed \in BOOLEAN :
          result' = [op |-> "get_used_cells_and_allocated_size",
                     computed |-> computed,
                     ret |-> get_used_cells_and_allocated_size(
                                 builtin_runners[1], computed, memory, current_step)]
    /\ UNCHANGED <<memory, pc, ap, fp, current_step, trace, accessed_addresses,
                   error_message_attributes, num_segments, num_temp_segments,
                   relocation_rules, builtin_runners>>

NextAllocation == GetUsedCellsAndAllocatedSize

SpecAllocation == InitAllocation /\ [][NextAllocation]_vars

----------------------------------------------------------------------------
(* The unsafe_keccak hint (hint_processor/builtin_hint_processor/           *)
(* keccak_utils.rs)                                                         *)

\* Bytes per data word (16) and bits per byte (8), scaled down, and the
\* largest u64
WordBytes == 2
ByteBits == 2
u64_MAX == 31

\* Memory::get_integer: the Int stored at key
get_integer(mem, key) ==
    IF IsInt(get(mem, key)) THEN Ok(get(mem, key).int) ELSE Err(<<"ExpectedInteger", key>>)

\* The cells the hint's ids refer to
KeccakIds == [length |-> Rel(1, 0), data |-> Rel(1, 1), high |-> Rel(1, 2), low |-> Rel(1, 3)]

\* get_integer_from_var_name, get_ptr_from_var_name: the value of an
\* identifier; get_relocatable_from_var_name: its address
get_integer_from_var_name(var_name, vm, ids_data) == get_integer(vm.memory, ids_data[var_name])
get_ptr_from_var_name(var_name, vm, ids_data) == get_relocatable(vm.memory, ids_data[var_name])
get_relocatable_from_var_name(var_name, vm, ids_data) == Ok(ids_data[var_name])

\* ExecutionScopes::get::<BigInt>: the variable, if it is there and a BigInt
exec_scopes_get(exec_scopes, name) ==
    IF name \in DOMAIN exec_scopes /\ IsInt(exec_scopes[name])
    THEN Ok(exec_scopes[name].int)
    ELSE Err(<<"VariableNotInScopeError", name>>)

\* BigInt::to_u64
to_u64(n) == IF n < 0 \/ n > u64_MAX THEN None ELSE [some |-> n]

\* BigInt::to_bytes_be of a non-negative number: its big-endian bytes, one
\* zero byte for zero
RECURSIVE to_bytes_be(_)
to_bytes_be(n) ==
    IF n < Pow2(ByteBits)
    THEN <<n>>
    ELSE Append(to_bytes_be(n \div Pow2(ByteBits)), n % Pow2(ByteBits))

\* BigInt::from_bytes_be(Sign::Plus, bytes)
RECURSIVE from_bytes_be(_)
from_bytes_be(bytes) ==
    IF bytes = <<>>
    THEN 0
    ELSE from_bytes_be(SubSeq(bytes, 1, Len(bytes) - 1)) * Pow2(ByteBits) + bytes[Len(bytes)]

left_pad(bytes_vector, n_zeros) == [i \in 1..n_zeros |-> 0] \o bytes_vector

\* Keccak256, modelled by a digest of two words that depends on every byte
\* of the input and on their number
RECURSIVE Absorb(_)
Absorb(input) ==
    IF input = <<>>
    THEN 0
    ELSE Absorb(SubSeq(input, 1, Len(input) - 1)) * (Pow2(ByteBits) + 1)
         + input[Len(input)] + 1

Keccak256(input) ==
    Let(to_bytes_be(Absorb(input) % Pow2(ByteBits * 2 * WordBytes)), LAMBDA d :
        left_pad(d, 2 * WordBytes - Len(d)))

cmp_min(a, b) == IF a < b THEN a ELSE b

\* Faulty variant of keccak_words: every word is held to the size of a full
\* word
RECURSIVE keccak_words_full(_, _, _, _, _)
keccak_words_full(vm, data, u64_length, word_i, acc) ==
    IF word_i * WordBytes >= u64_length
    THEN [ret |-> Ok(acc.keccak_input), read |-> acc.read]
    ELSE Let(Rel(data.segment_index, data.offset + word_i), LAMBDA word_addr :
         Let(get_integer(vm.memory, word_addr), LAMBDA word :
         Let(cmp_min(WordBytes, u64_length - word_i * WordBytes), LAMBDA n_bytes :
             IF ~word.ok
             THEN [ret |-> word, read |-> Append(acc.read, word_addr)]
             ELSE IF word.val < 0 \/ word.val >= Pow2(ByteBits * WordBytes)
             THEN [ret |-> Err(<<"InvalidWordSize", word.val>>),
                   read |-> Append(acc.read, word_addr)]
             ELSE keccak_words_full(vm, data, u64_length, word_i + 1,
                      [keccak_input |-> acc.keccak_input \o
                           left_pad(to_bytes_be(word.val),
                                    WordBytes - Len(to_bytes_be(word.val))),
                       read |-> Append(acc.read, word_addr)]))))

\* The loop of unsafe_keccak from word word_i on: the hash input, or the
\* first failure, and the addresses read
RECURSIVE keccak_words(_, _, _, _, _)
keccak_words(vm, data, u64_length, word_i, acc) ==
    IF word_i * WordBytes >= u64_length
    THEN [ret |-> Ok(acc.keccak_input), read |-> acc.read]
    ELSE Let(Rel(data.segment_index, data.offset + word_i), LAMBDA word_addr :
         Let(get_integer(vm.memory, word_addr), LAMBDA word :
         Let(cmp_min(WordBytes, u64_length - word_i * WordBytes), LAMBDA n_bytes :
             IF ~word.ok
             THEN [ret |-> word, read |-> Append(acc.read, word_addr)]
             ELSE IF word.val < 0 \/ word.val >= Pow2(ByteBits * n_bytes)
             THEN [ret |-> Err(<<"InvalidWordSize", word.val>>),
                   read |-> Append(acc.read, word_addr)]
             ELSE keccak_words(vm, data, u64_length, word_i + 1,
                      [keccak_input |-> acc.keccak_input \o
                           left_pad(to_bytes_be(word.val),
                                    n_bytes - Len(to_bytes_be(word.val))),
                       read |-> Append(acc.read, word_addr)]))))

\* The end of unsafe_keccak: the two halves of the digest are written
keccak_write(vm, high_addr, low_addr, keccak_input) ==
    Let(Keccak256(keccak_input), LAMBDA hashed :
    Let(insert_value(vm, high_addr, MInt(from_bytes_be(SubSeq(hashed, 1, WordBytes)))),
        LAMBDA h :
        IF ~h.ret.ok
        THEN h
        ELSE insert_value(h.vm, low_addr,
                 MInt(from_bytes_be(SubSeq(hashed, WordBytes + 1, 2 * WordBytes))))))

\* unsafe_keccak after the size limit
keccak_hash(vm, length, ids_data) ==
    Let(get_ptr_from_var_name("data", vm, ids_data), LAMBDA data :
        IF ~data.ok
        THEN [vm |-> vm, ret |-> data, read |-> <<>>, keccak_input |-> <<>>]
        ELSE IF to_u64(length) = None
        THEN [vm |-> vm, ret |-> Err(<<"InvalidKeccakInputLength", length>>),
              read |-> <<>>, keccak_input |-> <<>>]
        ELSE Let(keccak_words(vm, data.val, to_u64(length).some, 0,
                              [keccak_input |-> <<>>, read |-> <<>>]), LAMBDA w :
                 IF ~w.ret.ok
                 THEN [vm |-> vm, ret |-> w.ret, read |-> w.read, keccak_input |-> <<>>]
                 ELSE Let(keccak_write(vm, ids_data["high"], ids_data["low"], w.ret.val),
                          LAMBDA h :
                          [vm |-> h.vm, ret |-> h.ret, read |-> w.read,
                           keccak_input |-> w.ret.val])))

\* Faulty variant of unsafe_keccak: the size limit is tested after hashing
unsafe_keccak_limit_last(vm, exec_scopes, ids_data) ==
    Let(get_integer_from_var_name("length", vm, ids_data), LAMBDA length :
        IF ~length.ok
        THEN [vm |-> vm, ret |-> length, read |-> <<>>, keccak_input |-> <<>>]
        ELSE Let(keccak_hash(vm, length.val, ids_data), LAMBDA h :
             Let(exec_scopes_get(exec_scopes, "__keccak_max_size"), LAMBDA keccak_max_size :
                 IF keccak_max_size.ok /\ length.val > keccak_max_size.val
                 THEN [h EXCEPT !.ret = Err(<<"KeccakMaxSize", length.val,
                                              keccak_max_size.val>>)]
                 ELSE h)))

\* unsafe_keccak: the outcome, the addresses of the data words read and the
\* bytes hashed
unsafe_keccak(vm, exec_scopes, ids_data) ==
    Let(get_integer_from_var_name("length", vm, ids_data), LAMBDA length :
        IF ~length.ok
        THEN [vm |-> vm, ret |-> length, read |-> <<>>, keccak_input |-> <<>>]
        ELSE Let(exec_scopes_get(exec_scopes, "__keccak_max_size"), LAMBDA keccak_max_size :
                 IF keccak_max_size.ok /\ length.val > keccak_max_size.val
                 THEN [vm |-> vm,
                       ret |-> Err(<<"KeccakMaxSize", length.val, keccak_max_size.val>>),
                       read |-> <<>>, keccak_input |-> <<>>]
                 ELSE keccak_hash(vm, length.val, ids_data)))

\* What ids.length and a data word may hold, and the scopes of a hint
LengthValues == {None, MInt(u64_MAX + 1)} \cup {MInt(n) : n \in (0 - 1)..MaxLength}
WordValues == {None, Rel(1, 0)}
              \cup {MInt(n) : n \in {0 - 1, 0, 1, Pow2(ByteBits) - 1, Pow2(ByteBits),
                                     Pow2(ByteBits * WordBytes) - 1,
                                     Pow2(ByteBits * WordBytes)}}
ScopeValues == {MInt(n) : n \in 0..MaxLength} \cup {[other |-> "str"]}
ExecScopes == {<<>>} \cup {[name \in {"__keccak_max_size"} |-> v] : v \in ScopeValues}

\* The program, ids.length and ids.data on the stack, ids.high and ids.low
\* unassigned, and the data words in segment 2
InitKeccak ==
    /\ \E length \in LengthValues :
       \E words \in [{Rel(2, i) : i \in 0..(div_ceil(MaxLength, WordBytes) - 1)} -> WordValues] :
          memory = WithCells(WithCells(ProgramMemory, words),
                             (KeccakIds.length :> length) @@ (KeccakIds.data :> Rel(2, 0)))
    /\ pc = Rel(0, 0)
    /\ ap = MaxOffset
    /\ fp = 0
    /\ current_step = 0
    /\ trace = <<>>
    /\ accessed_addresses = <<>>
    /\ error_message_attributes = <<>>
    /\ num_segments = 3
    /\ num_temp_segments = 0
    /\ relocation_rules = <<>>
    /\ builtin_runners = BitwiseRunners
    /\ result = [op |-> "new"]

\* The hint runs in some scope
UnsafeKeccak ==
    \E exec_scopes \in ExecScopes :
    \E r \in {unsafe_keccak(VM, exec_scopes, KeccakIds)} :
        /\ SetVM(r.vm)
        /\ result' = [op |-> "unsafe_keccak", exec_scopes |-> exec_scopes,
                      ret |-> r.ret, read |-> r.read, keccak_input |-> r.keccak_input]

NextKeccak == UnsafeKeccak

SpecKeccak == InitKeccak /\ [][NextKeccak]_vars

\* What a program leaves in the stack cell below the final pointer
StopPointers == {Rel(2, 0), Rel(2, 5), Rel(2, 10), Rel(1, 5), MInt(5)}

\* The builtin cells a run touches: they set the used size to 0, 1, 5 or 6
UsedOffsets == {0, 4, 5}

\* The final pointers handed to final_stack
FinalPointers == {Rel(1, 0), Rel(1, 1), Rel(1, 2)}

\* The program loaded, nothing on the stack, the builtin segment unused
InitFinalStack ==
    /\ memory = ProgramMemory
    /\ pc = Rel(0, 0)
    /\ ap = 0
    /\ fp = 0
    /\ current_step = 0
    /\ trace = <<>>
    /\ accessed_addresses = <<>>
    /\ error_message_attributes = <<>>
    /\ num_segments = 3
    /\ num_temp_segments = 0
    /\ relocation_rules = <<>>
    /\ builtin_runners = BitwiseRunners
    /\ result = [op |-> "new"]

\* vm.insert_value of a stop pointer in the stack cell (1, 0)
InsertStopPointer ==
    \E val \in StopPointers :
    \E r \in {insert_value(VM, Rel(1, 0), val)} :
       /\ SetVM(r.vm)
       /\ result' = [op |-> "insert_value", key |-> Rel(1, 0), val |-> val, ret |-> r.ret]

\* vm.insert_value in a cell of the builtin segment
InsertBuiltinCell ==
    \E o \in UsedOffsets :
    \E r \in {insert_value(VM, Rel(2, o), MInt(1))} :
       /\ SetVM(r.vm)
       /\ result' = [op |-> "insert_value", key |-> Rel(2, o), val |-> MInt(1),
                     ret |-> r.ret]

\* builtin.final_stack(&vm, pointer), for a runner included in the program or
\* not, before or after the effective sizes were computed
FinalStack ==
    /\ \E included \in BOOLEAN, computed \in BOOLEAN, pointer \in FinalPointers :
          result' = [op |-> "final_stack", included |-> included,
                     computed |-> computed, pointer |-> pointer,
                     ret |-> bitwise_final_stack(builtin_runners[1], included, computed,
                                                 memory, pointer)]
    /\ UNCHANGED <<memory, pc, ap, fp, current_step, trace, accessed_addresses,
                   error_message_attributes, num_segments, num_temp_segments,
                   relocation_rules, builtin_runners>>

NextFinalStack == InsertStopPointer \/ InsertBuiltinCell \/ FinalStack

SpecFinalStack == InitFinalStack /\ [][NextFinalStack]_vars

----------------------------------------------------------------------------
(* Properties *)

\* The last call was a step that decoded an instruction
Stepped == result.op = "step" /\ result.instruction # None

\* The operand addresses of the last step's instruction: <<dst, op0, op1>>
StepAddresses == operand_addresses(memory, result.pre, result.instruction).val

\* The values now stored at the operand addresses of the last step
StoredDst == get(memory, StepAddresses[1])
StoredOp0 == get(memory, StepAddresses[2])
StoredOp1 == get(memory, StepAddresses[3])

\* A result that is the write-once failure of a memory write
IsInconsistentMemory(ret) ==
    /\ ~ret.ok
    /\ Len(ret.err) = 5
    /\ ret.err[1] = "MemoryError"
    /\ ret.err[2] = "InconsistentMemory"

\* C1: write-once memory. Over every step (its hints and its operand-deduction
\* writes included) and every insert_value, a cell that holds a value keeps
\* holding that value. A write of a different value fails with
\* InconsistentMemory(addr, held, written) and the cell keeps the held value;
\* a write of the held value succeeds and changes nothing. The operands a step
\* resolved are the values its cells hold afterwards.
C1_WriteOnce ==
    [][/\ \A a \in DOMAIN memory : a \in DOMAIN memory' /\ memory'[a] = memory[a]
       /\ result'.op = "insert_value" =>
             /\ get(memory, result'.key) = None =>
                   result'.ret.ok /\ get(memory', result'.key) = result'.val
             /\ get(memory, result'.key) = result'.val =>
                   result'.ret.ok /\ memory' = memory
             /\ get(memory, result'.key) \notin {None, result'.val} =>
                   /\ result'.ret = Err(<<"MemoryError", "InconsistentMemory", result'.key,
                                          get(memory, result'.key), result'.val>>)
                   /\ memory' = memory
       /\ (result'.op = "step" /\ IsInconsistentMemory(result'.ret)) =>
             /\ result'.ret.err[4] # result'.ret.err[5]
             /\ get(memory', result'.ret.err[3]) = result'.ret.err[4]
       /\ (result'.op = "step" /\ result'.instruction # None /\ result'.out.ok) =>
             /\ get(memory', result'.out.val.addresses[1]) = result'.out.val.operands.dst
             /\ get(memory', result'.out.val.addresses[2]) = result'.out.val.operands.op0
             /\ get(memory', result'.out.val.addresses[3]) = result'.out.val.operands.op1]_vars

\* C1's case: a call whose deduced return pc and deduced fp go to the same
\* cell; the second write is refused and the cell keeps the first value
C1_Witness ==
    /\ Stepped
    /\ result.instruction.opcode = "Call"
    /\ IsInconsistentMemory(result.ret)
    /\ result.ret.err[3] = Rel(1, 0)
    /\ result.ret.err[5] = Rel(1, 0)
    /\ get(memory, Rel(1, 0)) = result.ret.err[4]

\* C2: after a successful step of an AssertEq instruction whose dst, op0 and
\* op1 are all Int, the stored values satisfy dst = op1 (Op1),
\* dst = (op0 + op1) mod P (Add) or dst = (op0 * op1) mod P (Mul), whichever of
\* the cells were read and whichever deduced.
C2_SemanticsHold ==
    (/\ Stepped
     /\ result.ret.ok
     /\ result.instruction.opcode = "AssertEq"
     /\ IsInt(StoredDst) /\ IsInt(StoredOp0) /\ IsInt(StoredOp1)) =>
        CASE result.instruction.res = "Op1" -> StoredDst.int = StoredOp1.int
          [] result.instruction.res = "Add" ->
                StoredDst.int = (StoredOp0.int + StoredOp1.int) % Prime
          [] result.instruction.res = "Mul" ->
                StoredDst.int = (StoredOp0.int * StoredOp1.int) % Prime
          [] OTHER -> TRUE

\* The last step ran an AssertEq instruction with Res = Add with exactly one
\* of dst, op0, op1 absent (the operand cells lie in the execution segment,
\* which no builtin owns)
AddWithOneAbsent ==
    /\ Stepped
    /\ result.instruction.opcode = "AssertEq"
    /\ result.instruction.res = "Add"
    /\ Cardinality(result.absent) = 1
    /\ \A i \in 1..3 : StepAddresses[i].segment_index = 1

\* The difference d - k is a value: Int - Int, Addr - Int within the segment,
\* Addr - Addr of one segment
DifferenceDefined(d, k) ==
    \/ IsInt(d) /\ IsInt(k)
    \/ IsRel(d) /\ IsInt(k) /\ d.offset >= k.int
    \/ IsRel(d) /\ IsRel(k) /\ d.segment_index = k.segment_index

\* x is the value forced by d = x + k
IsDifference(x, d, k) ==
    IF IsRel(d) /\ IsRel(k)
    THEN x = MInt((d.offset - k.offset) % Prime)
    ELSE add_mod(x, k) = Ok(d)

\* C3 as stated: with exactly one of dst, op0, op1 absent, compute_operands
\* succeeds, the absent cell is written, and res = dst when op0 or op1 was
\* deduced.
C3_AddDeductionTotal ==
    AddWithOneAbsent =>
        /\ result.out.ok
        /\ \A i \in result.absent : get(memory, StepAddresses[i]) # None
        /\ result.absent # {1} => result.out.val.operands.res = StoredDst

\* C3, amended: with exactly one of dst, op0, op1 absent, compute_operands
\* succeeds exactly when the forced value is a value (dst - op for an absent
\* operand: Int - Int, Addr - Int not below offset 0, Addr - Addr of one
\* segment; op0 + op1 for an absent dst: anything but Addr + Addr). It then
\* writes the forced value in the absent cell and returns res = dst. Otherwise
\* it fails and the absent cell stays unassigned.
C3_AddDeduction ==
    AddWithOneAbsent =>
        IF CASE result.absent = {1} -> ~(IsRel(StoredOp0) /\ IsRel(StoredOp1))
             [] result.absent = {2} -> DifferenceDefined(StoredDst, StoredOp1)
             [] OTHER -> DifferenceDefined(StoredDst, StoredOp0)
        THEN /\ result.out.ok
             /\ StoredDst # None /\ StoredOp0 # None /\ StoredOp1 # None
             /\ CASE result.absent = {1} -> add_mod(StoredOp0, StoredOp1) = Ok(StoredDst)
                  [] result.absent = {2} -> IsDifference(StoredOp0, StoredDst, StoredOp1)
                  [] OTHER -> IsDifference(StoredOp1, StoredDst, StoredOp0)
             /\ result.out.val.operands = [dst |-> StoredDst, res |-> StoredDst,
                                           op0 |-> StoredOp0, op1 |-> StoredOp1]
        ELSE /\ ~result.out.ok
             /\ \A i \in result.absent : get(memory, StepAddresses[i]) = None

\* C3's case: op0 deduced as the difference of two addresses of one segment
C3_Witness ==
    /\ AddWithOneAbsent
    /\ result.absent = {2}
    /\ result.out.ok
    /\ IsRel(StoredDst)
    /\ IsRel(StoredOp1)
    /\ StoredOp0 = MInt(0)

\* The last step ran an AssertEq instruction with Res = Mul with dst known and
\* exactly one of op0, op1 absent
MulWithOneAbsent ==
    /\ Stepped
    /\ result.instruction.opcode = "AssertEq"
    /\ result.instruction.res = "Mul"
    /\ result.absent \in {{2}, {3}}

\* The operand known to the Mul deduction of the last step
KnownOperand == IF result.absent = {2} THEN StoredOp1 ELSE StoredOp0

\* C4: Mul deduction is field division. With dst = Int(d) and the known
\* operand Int(k), k # 0, the deduced operand x satisfies (x * k) mod P = d and
\* res = dst; with k = 0 or an Addr nothing is deduced (so the operand cannot
\* be computed).
C4_MulFieldDivision ==
    MulWithOneAbsent =>
        IF IsInt(StoredDst) /\ IsInt(KnownOperand) /\ KnownOperand.int # 0
        THEN /\ result.out.ok
             /\ result.out.val.operands.res = StoredDst
             /\ \A i \in result.absent :
                   /\ IsInt(get(memory, StepAddresses[i]))
                   /\ get(memory, StepAddresses[i]).int \in 0..(Prime - 1)
                   /\ (get(memory, StepAddresses[i]).int * KnownOperand.int) % Prime
                         = StoredDst.int
        ELSE result.out = Err(<<"FailedToComputeOperands">>)

\* C5: current_step starts at 0, grows by exactly 1 on every step that returns
\* Ok and is unchanged by every step that returns an error.
C5_StepCounter ==
    /\ current_step = 0
    /\ [][result'.op = "step" =>
             current_step' = IF result'.ret.ok THEN current_step + 1
                             ELSE current_step]_vars

\* C5's case: a successful step, then a step that fails in the register
\* update, after its trace entry was recorded
C5_Witness ==
    /\ Stepped
    /\ ~result.ret.ok
    /\ result.out.ok
    /\ Len(trace) = 2
    /\ current_step = 1

\* The last step resolved the operands of an instruction with PcUpdate::Jnz
JnzStep == Stepped /\ result.instruction.pc_update = "Jnz" /\ result.out.ok

\* pc + n, from the pc the last step started at
PcPlus(n) == Rel(result.pre.pc.segment_index, result.pre.pc.offset + n)

BuiltinLen == segment_len(memory, 2)
Deduced(o) == bitwise_deduce_memory_cell(Rel(2, o), memory)

\* A written cell whose deduction is Some(v') with v' different from the cell
Mismatch(o) ==
    /\ Rel(2, o) \in DOMAIN memory
    /\ Deduced(o).ok
    /\ Deduced(o).val # None
    /\ Deduced(o).val # memory[Rel(2, o)]

\* The error reporting the mismatch of cell o
MismatchError(o) ==
    Err(<<"InconsistentAutoDeduction", "bitwise", Deduced(o).val, memory[Rel(2, o)]>>)

\* The offsets, below the segment's length, where the walk stops: a mismatch,
\* or a deduction that fails
Offending == {o \in 0..(BuiltinLen - 1) : Mismatch(o) \/ ~Deduced(o).ok}
FirstOffending == CHOOSE o \in Offending : \A q \in Offending : o <= q

VerifyCalled == result.op \in {"verify_auto_deductions", "end_run"}

Bit(n, i) == (n \div Pow2(i)) % 2

\* The last call asked the bitwise builtin for a cell of its segment
DeduceCalled == result.op = "deduce_memory_cell" /\ result.address.segment_index = 2

\* The index of the queried cell in its instance, and the instance's inputs
CellIndex == result.address.offset % 5
InputX == get(memory, Rel(2, result.address.offset - CellIndex))
InputY == get(memory, Rel(2, result.address.offset - CellIndex + 1))

\* C9: with Int inputs x, y < 2^total_n_bits, the cells of index 2, 3, 4 are
\* deduced as x AND y, x XOR y, x OR y, bit by bit, each below 2^total_n_bits.
C9_BitwiseDeduction ==
    (/\ DeduceCalled
     /\ CellIndex \in 2..4
     /\ IsInt(InputX) /\ IsInt(InputY)
     /\ InputX.int < Pow2(total_n_bits) /\ InputY.int < Pow2(total_n_bits)) =>
        /\ result.builtin.ok
        /\ result.ret = result.builtin
        /\ IsInt(result.builtin.val)
        /\ result.builtin.val.int \in 0..(Pow2(total_n_bits) - 1)
        /\ \A i \in 0..(total_n_bits - 1) :
              Bit(result.builtin.val.int, i) =
                 CASE CellIndex = 2 -> Bit(InputX.int, i) * Bit(InputY.int, i)
                   [] CellIndex = 3 -> (Bit(InputX.int, i) + Bit(InputY.int, i)) % 2
                   [] OTHER -> IF Bit(InputX.int, i) + Bit(InputY.int, i) > 0 THEN 1 ELSE 0

\* C9's case: 3 XOR 1 = 2 deduced at index 3
C9_Witness ==
    /\ DeduceCalled
    /\ result.address = Rel(2, 3)
    /\ InputX = MInt(3)
    /\ InputY = MInt(1)
    /\ result.ret = Ok(MInt(2))

\* C10: the builtin answers Ok(None) at an input cell (index 0 or 1) whatever
\* the memory holds, and at an output cell when an input of its instance is
\* unassigned or an Addr.
C10_BitwiseNotDeducible ==
    DeduceCalled =>
        /\ CellIndex \in {0, 1} => result.builtin = Ok(None)
        /\ (\/ InputX = None \/ InputY = None
            \/ IsRel(InputX) \/ IsRel(InputY)) => result.builtin = Ok(None)

\* C10's case: an output cell whose inputs are an out-of-range Int and an Addr
C10_Witness ==
    /\ DeduceCalled
    /\ result.address = Rel(2, 4)
    /\ InputX = MInt(6)
    /\ InputY = Rel(1, 0)
    /\ result.builtin = Ok(None)

\* C11: at an output cell whose inputs are both Int, x >= 2^total_n_bits or
\* y >= 2^total_n_bits makes the deduction fail with
\* IntegerBiggerThanPowerOfTwo, naming x's address and value when x is out of
\* range and y's otherwise; no value is returned.
C11_BitwiseRangeError ==
    (/\ DeduceCalled
     /\ CellIndex \in 2..4
     /\ IsInt(InputX) /\ IsInt(InputY)
     /\ (InputX.int >= Pow2(total_n_bits) \/ InputY.int >= Pow2(total_n_bits))) =>
        /\ result.builtin =
              IF InputX.int >= Pow2(total_n_bits)
              THEN Err(<<"IntegerBiggerThanPowerOfTwo",
                         Rel(2, result.address.offset - CellIndex),
                         total_n_bits, InputX.int>>)
              ELSE Err(<<"IntegerBiggerThanPowerOfTwo",
                         Rel(2, result.address.offset - CellIndex + 1),
                         total_n_bits, InputY.int>>)
        /\ result.ret = Err(<<"RunnerError">> \o result.builtin.err)

\* C11's case: both inputs out of range, x reported
C11_Witness ==
    /\ DeduceCalled
    /\ result.address = Rel(2, 3)
    /\ InputX = MInt(6)
    /\ InputY = MInt(6)
    /\ result.builtin = Err(<<"IntegerBiggerThanPowerOfTwo", Rel(2, 0), total_n_bits, 6>>)

\* C12: a call of deduce_memory_cell changes neither memory nor registers,
\* step counter, trace or accessed addresses, whatever it returns.
C12_DeductionIsPure ==
    [][result'.op = "deduce_memory_cell" =>
          UNCHANGED <<memory, pc, ap, fp, current_step, trace, accessed_addresses>>]_vars

\* C12's case: a value deduced for an unassigned cell, which stays unassigned
C12_Witness ==
    /\ result.op = "deduce_memory_cell"
    /\ result.address = Rel(2, 2)
    /\ result.ret = Ok(MInt(1))
    /\ Rel(2, 2) \notin DOMAIN memory

\* C13: every successful step appends exactly one trace entry, holding the pc
\* and the ap and fp (paired with segment 1) from before the step's register
\* update; the earlier entries are kept in order.
C13_TraceEntry ==
    [][(result'.op = "step" /\ result'.ret.ok) =>
          trace' = Append(trace, [pc |-> pc, ap |-> Rel(1, ap), fp |-> Rel(1, fp)])]_vars

\* C13's case: two successful steps, the first of which moved pc and ap
C13_Witness ==
    /\ Stepped
    /\ result.ret.ok
    /\ current_step = 2
    /\ Len(trace) = 2
    /\ trace[1].ap = Rel(1, 0)
    /\ trace[2].ap = Rel(1, 1)
    /\ trace[2].pc # trace[1].pc
    /\ trace[2].pc # pc

\* C14: every successful step appends to accessed_addresses exactly
\* dst_addr, op0_addr, op1_addr and the pc the step started at, in this order
\* and keeping duplicates; after k steps, all successful, the list has 4 * k
\* entries.
C14_AccessedAddresses ==
    /\ [](Len(trace) = current_step => Len(accessed_addresses) = 4 * current_step)
    /\ [][(result'.op = "step" /\ result'.ret.ok) =>
             /\ result'.out.val.addresses =
                   operand_addresses(memory', [pc |-> pc, ap |-> ap, fp |-> fp],
                                     result'.instruction).val
             /\ accessed_addresses' =
                   accessed_addresses \o result'.out.val.addresses \o <<pc>>]_vars

\* C14's case: a call, then a ret whose op0 and op1 are the same cell
C14_Witness ==
    /\ Stepped
    /\ result.ret.ok
    /\ result.instruction.opcode = "Ret"
    /\ current_step = 2
    /\ Len(accessed_addresses) = 8
    /\ accessed_addresses[6] = accessed_addresses[7]
    /\ accessed_addresses[8] = result.pre.pc

\* C15: over a successful step, FpUpdate::Regular leaves fp unchanged, APPlus2
\* sets fp to the ap from before the step plus 2 (fp is updated before ap),
\* and Dst sets fp to dst's offset when dst is an Addr and to n when dst is
\* Int(n).
C15_FpUpdate ==
    [][(result'.op = "step" /\ result'.ret.ok) =>
          fp' = CASE result'.instruction.fp_update = "Regular" -> fp
                  [] result'.instruction.fp_update = "APPlus2" -> ap + 2
                  [] result'.instruction.fp_update = "Dst" ->
                        IF IsRel(result'.out.val.operands.dst)
                        THEN result'.out.val.operands.dst.offset
                        ELSE result'.out.val.operands.dst.int]_vars

\* C15's case: a call, which sets fp from the old ap and moves ap as well
C15_Witness ==
    /\ Stepped
    /\ result.ret.ok
    /\ result.instruction.fp_update = "APPlus2"
    /\ result.instruction.ap_update = "Add2"
    /\ fp = result.pre.ap + 2
    /\ ap = result.pre.ap + 2

\* The step being taken resolved its operands and passed its opcode
\* assertion, so that its registers were updated
UpdatingRegisters ==
    /\ result'.op = "step"
    /\ result'.instruction # None
    /\ result'.out.ok
    /\ Len(trace') = Len(trace) + 1

UpdatingPc ==
    /\ UpdatingRegisters
    /\ result'.instruction.ap_update = "Add" => IsInt(result'.out.val.operands.res)

C18_AssertEq ==
    [][(result'.op = "step" /\ result'.instruction # None /\ result'.out.ok) =>
          LET res == result'.out.val.operands.res
              dst == result'.out.val.operands.dst
              passes == Len(trace') = Len(trace) + 1
          IN CASE result'.instruction.opcode = "AssertEq" ->
                    IF res = None
                    THEN result'.ret = Err(<<"UnconstrainedResAssertEq">>) /\ trace' = trace
                    ELSE IF IsInt(res) /\ IsInt(dst) /\ res # dst
                    THEN /\ result'.ret = Err(<<"DiffAssertValues", dst.int, res.int>>)
                         /\ trace' = trace
                    ELSE passes
               [] result'.instruction.opcode \in {"NOp", "Ret"} -> passes
               [] OTHER -> TRUE]_vars

\* C18's case: an Addr dst and an Int res, not compared
C18_Witness ==
    /\ Stepped
    /\ result.instruction.opcode = "AssertEq"
    /\ result.out.ok
    /\ IsRel(result.out.val.operands.dst)
    /\ result.out.val.operands.res # None
    /\ IsInt(result.out.val.operands.res)
    /\ result.ret.ok

\* C19: for Call, op0 # pc + size() fails with
\* CantWriteReturnPc(op0, pc + size()); otherwise dst # (1, fp) fails with
\* CantWriteReturnFp(dst, (1, fp)); otherwise the assertion passes. pc and fp
\* are the registers from before the step.
C19_CallAssertion ==
    [][(/\ result'.op = "step"
        /\ result'.instruction # None
        /\ result'.out.ok
        /\ result'.instruction.opcode = "Call") =>
          LET op0 == result'.out.val.operands.op0
              dst == result'.out.val.operands.dst
              return_pc == Rel(pc.segment_index, pc.offset + size(result'.instruction))
          IN IF op0 # return_pc
             THEN /\ result'.ret = Err(<<"CantWriteReturnPc", op0, return_pc>>)
                  /\ trace' = trace
             ELSE IF dst # Rel(1, fp)
             THEN /\ result'.ret = Err(<<"CantWriteReturnFp", dst, Rel(1, fp)>>)
                  /\ trace' = trace
             ELSE Len(trace') = Len(trace) + 1]_vars

\* C19's case: both the return pc and the return fp are wrong, and the return
\* pc is the one reported
C19_Witness ==
    /\ Stepped
    /\ result.instruction.opcode = "Call"
    /\ result.out.ok
    /\ result.out.val.operands.dst # Rel(1, result.pre.fp)
    /\ result.out.val.operands.op0 #
          Rel(result.pre.pc.segment_index, result.pre.pc.offset + 2)
    /\ result.ret.err[1] = "CantWriteReturnPc"

\* The cell at address holds no instruction word: it is unassigned, holds an
\* Addr, or holds an Int that does not fit the word
NoInstructionWord(mem, address) ==
    \/ get(mem, address) = None
    \/ IsRel(get(mem, address))
    \/ IsInt(get(mem, address)) /\ to_i64(get(mem, address).int) = None

\* The cell at address holds the word of an instruction and the next cell is
\* unassigned
WordWithoutImmediate(mem, address) ==
    /\ IsInt(get(mem, address))
    /\ get(mem, address).int < Len(InstructionSet)
    /\ get(mem, Rel(address.segment_index, address.offset + 1)) = None

\* The VM as the hints of the step being taken leave it
Hinted == step_hint(VM, result'.hint_list)

\* C20 as stated: a step taken when the cell at pc holds no instruction word
\* fails with InvalidInstructionEncoding and changes no register, memory cell,
\* trace entry or step counter; a step at a word whose immediate is absent
\* does not fail with InvalidInstructionEncoding.
C20_FetchFailure ==
    [][result'.op = "step" =>
          /\ NoInstructionWord(memory, pc) =>
                /\ result'.ret = Err(<<"InvalidInstructionEncoding">>)
                /\ UNCHANGED <<memory, pc, ap, fp, current_step, trace>>
          /\ WordWithoutImmediate(memory, pc) =>
                result'.ret # Err(<<"InvalidInstructionEncoding">>)]_vars

\* C20, amended: once the hints registered at pc have run without error, a
\* step taken when the cell at pc then holds no instruction word fails with
\* InvalidInstructionEncoding and changes no register, trace entry or step
\* counter, and no memory cell beyond what the hints wrote; a step at a word
\* whose immediate is absent does not fail with InvalidInstructionEncoding.
C20_FetchFailureAfterHints ==
    [][(result'.op = "step" /\ Hinted.ret.ok) =>
          /\ NoInstructionWord(Hinted.vm.memory, pc) =>
                /\ result'.ret = Err(<<"InvalidInstructionEncoding">>)
                /\ memory' = Hinted.vm.memory
                /\ UNCHANGED <<pc, ap, fp, current_step, trace>>
          /\ WordWithoutImmediate(Hinted.vm.memory, pc) =>
                result'.ret # Err(<<"InvalidInstructionEncoding">>)]_vars

\* C20's case: after a successful step, a step whose hint wrote a cell and
\* whose pc is at an Int that does not fit the word
C20_Witness ==
    /\ result.op = "step"
    /\ result.hint_list # <<>>
    /\ result.ret = Err(<<"InvalidInstructionEncoding">>)
    /\ IsInt(get(memory, pc))
    /\ get(memory, pc).int > i64_MAX
    /\ current_step = 1
    /\ Len(trace) = 1

\* C21: end_run returns the error of verify_auto_deductions when the
\* verification fails, whatever the depth of the scope stack; when it passes,
\* end_run returns Ok for a depth of exactly one and the NoScopeError
\* main-scope error for any other depth.
C21_EndRun ==
    result.op = "end_run" =>
        IF ~verify_auto_deductions(VM).ok
        THEN /\ ~result.ret.ok
             /\ result.ret = verify_auto_deductions(VM)
             /\ result.ret.err[1] \in {"InconsistentAutoDeduction", "RunnerError"}
        ELSE IF result.scopes_len = 1
        THEN result.ret = Ok(None)
        ELSE result.ret = Err(<<"MainScopeError", "NoScopeError">>)

\* C21's case: a failing verification and a scope stack of depth two; the
\* verification's error is the one returned
C21_Witness ==
    /\ result.op = "end_run"
    /\ result.scopes_len = 2
    /\ ~result.ret.ok
    /\ result.ret.err[1] = "InconsistentAutoDeduction"

\* The error the step being taken returns when no attribute is configured
OriginalError ==
    step([VM EXCEPT !.error_message_attributes = <<>>], result'.hint_list).ret

\* C22: whenever step_instruction fails (the hints of the step have run
\* without error) at a pc whose offset lies in the span of a configured
\* attribute, the returned error is ErrorMessageAttribute with the text of
\* that attribute and the original error; when no span covers the pc the
\* original error is returned unchanged.
C22_ErrorMessageAttribute ==
    [][(result'.op = "step" /\ Hinted.ret.ok /\ ~result'.ret.ok) =>
          IF covering(error_message_attributes, pc'.offset) # <<>>
          THEN result'.ret =
                  Err(<<"ErrorMessageAttribute",
                        Head(covering(error_message_attributes, pc'.offset)).value>>
                      \o OriginalError.err)
          ELSE result'.ret = OriginalError]_vars

\* C23: add_relocation_rule(src, dst) fails with
\* AddressNotInTemporarySegment(segment) when src's segment is not negative,
\* otherwise with NonZeroOffset(offset) when src's offset is not zero,
\* otherwise with DuplicatedRelocation(segment) when the segment has a rule;
\* a failed call leaves the rule table unchanged. Otherwise it succeeds and
\* maps the segment to dst. A rule, once accepted, is never replaced.
C23_RelocationRules ==
    [][/\ \A i \in DOMAIN relocation_rules :
             i \in DOMAIN relocation_rules' /\ relocation_rules'[i] = relocation_rules[i]
       /\ result'.op = "add_relocation_rule" =>
             LET src == result'.src_ptr
             IN IF src.segment_index >= 0
                THEN /\ result'.ret =
                           Err(<<"AddressNotInTemporarySegment", src.segment_index>>)
                     /\ relocation_rules' = relocation_rules
                ELSE IF src.offset # 0
                THEN /\ result'.ret = Err(<<"NonZeroOffset", src.offset>>)
                     /\ relocation_rules' = relocation_rules
                ELSE IF -src.segment_index \in DOMAIN relocation_rules
                THEN /\ result'.ret = Err(<<"DuplicatedRelocation", src.segment_index>>)
                     /\ relocation_rules' = relocation_rules
                ELSE /\ result'.ret = Ok(None)
                     /\ DOMAIN relocation_rules' =
                           DOMAIN relocation_rules \cup {-src.segment_index}
                     /\ relocation_rules'[-src.segment_index] = result'.dst_ptr]_vars

\* C23's case: a second rule for segment -1 is refused and the first is kept
C23_Witness ==
    /\ result.op = "add_relocation_rule"
    /\ result.src_ptr = Rel(-1, 0)
    /\ result.dst_ptr = Rel(-1, 1)
    /\ result.ret = Err(<<"DuplicatedRelocation", -1>>)
    /\ relocation_rules[1] = Rel(1, 2)
    /\ 2 \in DOMAIN relocation_rules

\* C24: on a fresh VM the k-th add_memory_segment returns (k-1, 0) and the
\* k-th add_temporary_segment returns (-k, 0), however the calls of the two
\* kinds and of add_relocation_rule interleave: each call returns the index
\* after the earlier calls of its own kind and counts for its own kind only.
C24_SegmentNumbering ==
    /\ num_segments = 0
    /\ num_temp_segments = 0
    /\ [][/\ result'.op = "add_memory_segment" =>
                /\ result'.ret = Rel(num_segments, 0)
                /\ num_segments' = num_segments + 1
                /\ num_temp_segments' = num_temp_segments
          /\ result'.op = "add_temporary_segment" =>
                /\ result'.ret = Rel(-(num_temp_segments + 1), 0)
                /\ num_temp_segments' = num_temp_segments + 1
                /\ num_segments' = num_segments
          /\ result'.op = "add_relocation_rule" =>
                UNCHANGED <<num_segments, num_temp_segments>>]_vars

\* C24's case: the second temporary segment, added after two segments
C24_Witness ==
    /\ result.op = "add_temporary_segment"
    /\ result.ret = Rel(-2, 0)
    /\ num_segments = 2
    /\ num_temp_segments = 2

\* The last call was final_stack on an included builtin with the pointer
\* above a stack cell
FinalStackCalled ==
    result.op = "final_stack" /\ result.included /\ result.pointer.offset >= 1

\* The cell below the pointer of the last final_stack call, and the used
\* cells rounded up to whole instances
StopCell == get(memory, Rel(result.pointer.segment_index, result.pointer.offset - 1))
UsedCells == ((segment_len(memory, 2) + 4) \div 5) * 5

\* C25 as stated: final_stack on an included builtin fails with FinalStack
\* when the cell at pointer - 1 is unassigned or not an Addr or the used
\* cells cannot be computed, fails with InvalidStopPointer("bitwise") when the
\* Addr's segment is not the builtin's base or its offset differs from
\* ceil(used_cells / 5) * 5, and otherwise returns (pointer - 1, offset); for
\* a builtin not included it returns the pointer, whatever the memory holds.
C25_FinalStack ==
    /\ FinalStackCalled =>
          IF StopCell = None \/ ~IsRel(StopCell) \/ ~result.computed
          THEN result.ret = Err(<<"FinalStack">>)
          ELSE IF StopCell.segment_index # 2 \/ StopCell.offset # UsedCells
          THEN result.ret = Err(<<"InvalidStopPointer", "bitwise">>)
          ELSE result.ret = Ok(<<Rel(result.pointer.segment_index,
                                     result.pointer.offset - 1), StopCell.offset>>)
    /\ (result.op = "final_stack" /\ ~result.included) =>
          result.ret.ok /\ result.ret.val[1] = result.pointer

\* C25, amended: the segment of the stop pointer is compared with the
\* builtin's base before the used cells are computed, so a stop pointer in
\* another segment fails with InvalidStopPointer("bitwise") also when the
\* used cells cannot be computed.
C25_FinalStackInOrder ==
    /\ FinalStackCalled =>
          IF StopCell = None \/ ~IsRel(StopCell)
          THEN result.ret = Err(<<"FinalStack">>)
          ELSE IF StopCell.segment_index # 2
          THEN result.ret = Err(<<"InvalidStopPointer", "bitwise">>)
          ELSE IF ~result.computed
          THEN result.ret = Err(<<"FinalStack">>)
          ELSE IF StopCell.offset # UsedCells
          THEN result.ret = Err(<<"InvalidStopPointer", "bitwise">>)
          ELSE result.ret = Ok(<<Rel(result.pointer.segment_index,
                                     result.pointer.offset - 1), StopCell.offset>>)
    /\ (result.op = "final_stack" /\ ~result.included) =>
          result.ret.ok /\ result.ret.val[1] = result.pointer

\* C25's case: six used cells, two instances, and the stop pointer at 10
C25_Witness ==
    /\ FinalStackCalled
    /\ result.computed
    /\ segment_len(memory, 2) = 6
    /\ StopCell = Rel(2, 10)
    /\ result.ret = Ok(<<Rel(1, 0), 10>>)

\* A step that found op0 assigned and op1 unassigned: op1 has to be deduced
DeducingOp1 ==
    /\ result'.op = "step"
    /\ result'.instruction # None
    /\ 3 \in result'.absent
    /\ 2 \notin result'.absent

\* The op1 cell of the step being taken, and what the cells held when the
\* instruction started
Op1Addr == operand_addresses(Hinted.vm.memory, Regs(VM), result'.instruction).val[3]
Op0Held == get(Hinted.vm.memory,
               operand_addresses(Hinted.vm.memory, Regs(VM), result'.instruction).val[2])
DstHeld == get(Hinted.vm.memory,
               operand_addresses(Hinted.vm.memory, Regs(VM), result'.instruction).val[1])

\* C26: when op0 (or op1) is unassigned and the builtin owning its segment
\* deduces Some(v), the operand is v, v is written at the operand's address
\* and no res is adopted from an instruction-level deduction (res is computed
\* from the operands); when the builtin deduction yields None the operand is
\* what deduce_op0 / deduce_op1 yields.
C26_BuiltinPrecedence ==
    [][ /\ DeducingOp1 /\ deduce_memory_cell(Op1Addr, Hinted.vm.memory).ok =>
            Let(deduce_memory_cell(Op1Addr, Hinted.vm.memory).val, LAMBDA v :
            Let(deduce_op1(result'.instruction, DstHeld, Op0Held), LAMBDA e :
                IF v # None
                THEN /\ get(memory', Op1Addr) = v
                     /\ result'.out.ok
                     /\ result'.out.val.operands.op1 = v
                     /\ Ok(result'.out.val.operands.res)
                           = compute_res(result'.instruction, Op0Held, v)
                ELSE IF e.ok /\ e.val.op # None
                THEN /\ get(memory', Op1Addr) = e.val.op
                     /\ result'.out.ok
                     /\ result'.out.val.operands.op1 = e.val.op
                ELSE /\ get(memory', Op1Addr) = None
                     /\ ~result'.out.ok))
        /\ result'.op = "compute_op0_deductions"
              /\ deduce_memory_cell(result'.op0_addr, memory).ok =>
            Let(deduce_memory_cell(result'.op0_addr, memory).val, LAMBDA v :
            Let(deduce_op0(Regs(VM), result'.instruction, result'.dst_op, result'.op1_op),
                LAMBDA e :
                IF v # None
                THEN /\ get(memory', result'.op0_addr) = v
                     /\ result'.ret = Ok([op |-> v, res |-> None])
                ELSE IF e.ok /\ e.val.op # None
                THEN /\ get(memory', result'.op0_addr) = e.val.op
                     /\ result'.ret = e
                ELSE /\ get(memory', result'.op0_addr) = None
                     /\ ~result'.ret.ok))
      ]_vars

\* A step deduced op1 = 3 & 1 from the bitwise builtin although dst held
\* another value, which deduce_op1 would have adopted
C26_Witness ==
    /\ result.op = "step"
    /\ result.instruction # None
    /\ 3 \in result.absent
    /\ result.out.ok
    /\ result.out.val.addresses[3] = Rel(2, 2)
    /\ result.out.val.operands.op1 = MInt(1)
    /\ result.out.val.operands.dst = MInt(3)
    /\ get(memory, Rel(2, 2)) = MInt(1)

\* The positions, in registration order, of the builtins whose base is the
\* segment of the address asked for
Owners ==
    {i \in 1..Len(builtin_runners) :
        builtin_runners[i].base = result.address.segment_index}

\* C27: deduce_memory_cell(address) returns Ok(None) when no registered
\* builtin has address.segment_index as its base; otherwise it returns what
\* the first such builtin in registration order deduces, Ok(None) included,
\* and that builtin's error wrapped as RunnerError.
C27_BuiltinRouting ==
    result.op = "deduce_memory_cell" =>
        IF Owners = {}
        THEN result.ret = Ok(None)
        ELSE Let(builtin_deduce_memory_cell(
                     builtin_runners[CHOOSE i \in Owners : \A j \in Owners : i <= j],
                     result.address, memory),
                 LAMBDA d :
                     IF d.ok
                     THEN result.ret = d
                     ELSE result.ret = Err(<<"RunnerError">> \o d.err))

\* The builtin registered second owns the cell and deduces 3 & 1
C27_Witness ==
    /\ result.op = "deduce_memory_cell"
    /\ Len(builtin_runners) = 2
    /\ Owners = {2}
    /\ result.address.offset = 2
    /\ result.ret = Ok(MInt(1))

\* The dst and op0 cells of the step being taken
DstAddr == operand_addresses(Hinted.vm.memory, Regs(VM), result'.instruction).val[1]
Op0Addr == operand_addresses(Hinted.vm.memory, Regs(VM), result'.instruction).val[2]

\* A step whose instruction is a Call and whose dst and op0 cells are unassigned
CallingUnassigned ==
    /\ result'.op = "step"
    /\ result'.instruction # None
    /\ result'.instruction.opcode = "Call"
    /\ {1, 2} \subseteq result'.absent

\* call as compiled: dst = [ap], op0 = [ap+1], fp = ap + 2
FrameCall(instruction) ==
    /\ instruction.opcode = "Call"
    /\ instruction.dst_register = "AP" /\ instruction.off0 = 0
    /\ instruction.op0_register = "AP" /\ instruction.off1 = 1
    /\ instruction.fp_update = "APPlus2"

\* ret as compiled: dst = [fp-2], res = op1 = [fp-1], fp = dst, pc = res
FrameRet(instruction) ==
    /\ instruction.opcode = "Ret"
    /\ instruction.dst_register = "FP" /\ instruction.off0 = -2
    /\ instruction.op1_addr = "FP" /\ instruction.off2 = -1
    /\ instruction.res = "Op1"
    /\ instruction.fp_update = "Dst"
    /\ instruction.pc_update = "Jump"

\* The instruction step i of the trace ran
TracedInstruction(i) == decode_current_instruction([VM EXCEPT !.pc = trace[i].pc]).val

\* The Call steps of the trace that set fp to the present fp
OpenCalls ==
    {i \in 1..Len(trace) :
        /\ FrameCall(TracedInstruction(i))
        /\ fp = trace[i].ap.offset + 2}

\* A Ret step executed with the fp of an earlier Call sets fp and pc back to
\* the frame and the return address of that Call
RetRestoresFrame ==
    (/\ result'.op = "step"
     /\ result'.instruction # None
     /\ FrameRet(result'.instruction)) =>
        \A i \in OpenCalls :
            /\ result'.ret.ok
            /\ fp' = trace[i].fp.offset
            /\ pc' = rel_add_usize(trace[i].pc, size(TracedInstruction(i)))

\* C28 as stated: a Call step from pc = p, fp = f whose dst and op0 cells are
\* unassigned writes Addr(1, f) at dst_addr and p + size() at op0_addr and
\* passes both Call assertions; with dst = [ap], op0 = [ap+1] and APPlus2 it
\* sets fp = ap + 2; any later Ret step executed with that fp sets fp back to
\* f and pc to p + size().
C28_CallThenRet ==
    [][ /\ CallingUnassigned =>
              /\ get(memory', DstAddr) = Rel(1, fp)
              /\ get(memory', Op0Addr) = rel_add_usize(pc, size(result'.instruction))
              /\ result'.ret.ok
              /\ FrameCall(result'.instruction) => fp' = ap + 2
        /\ RetRestoresFrame
      ]_vars

\* C28 for a Call whose dst and op0 are two cells and whose op1 is assigned:
\* the same writes, both assertions passed (the step reached its trace
\* entry), the same fp, and the same return of a later Ret.
C28_CallThenRetDistinct ==
    [][ /\ (CallingUnassigned /\ DstAddr # Op0Addr /\ 3 \notin result'.absent) =>
              /\ get(memory', DstAddr) = Rel(1, fp)
              /\ get(memory', Op0Addr) = rel_add_usize(pc, size(result'.instruction))
              /\ Len(trace') = Len(trace) + 1
              /\ FrameCall(result'.instruction) => fp' = ap + 2
        /\ RetRestoresFrame
      ]_vars

\* A call from pc 0 with fp = 0 wrote its frame in unassigned cells and the
\* ret that followed came back to pc 2 with fp = 0
C28_Witness ==
    /\ Len(trace) = 2
    /\ trace[1].pc = Rel(0, 0)
    /\ FrameCall(TracedInstruction(1))
    /\ trace[2].fp = Rel(1, 2)
    /\ result.op = "step"
    /\ result.ret.ok
    /\ FrameRet(result.instruction)
    /\ get(memory, Rel(1, 0)) = Rel(1, 0)
    /\ get(memory, Rel(1, 1)) = Rel(0, 2)
    /\ fp = 0
    /\ pc = Rel(0, 2)

\* What the op1 cell of the step being taken held when the instruction started
Op1Held == get(Hinted.vm.memory, Op1Addr)

\* A step that decoded an instruction and found the cell of operand i
\* (1 = dst, 2 = op0, 3 = op1) unassigned
Deducing(i) ==
    /\ result'.op = "step"
    /\ result'.instruction # None
    /\ i \in result'.absent

\* Neither the builtins nor the instruction yield the unassigned op0
Op0Undeducible ==
    /\ deduce_memory_cell(Op0Addr, Hinted.vm.memory) = Ok(None)
    /\ deduce_op0(Regs(VM), result'.instruction, DstHeld, Op1Held).ok
    /\ deduce_op0(Regs(VM), result'.instruction, DstHeld, Op1Held).val.op = None

\* Neither the builtins nor the instruction yield the unassigned op1
Op1Undeducible ==
    /\ deduce_memory_cell(Op1Addr, Hinted.vm.memory) = Ok(None)
    /\ deduce_op1(result'.instruction, DstHeld, Op0Held).ok
    /\ deduce_op1(result'.instruction, DstHeld, Op0Held).val.op = None

\* The opcodes that give no dst for a result r
NoDstFor(instruction, r) ==
    \/ instruction.opcode \in {"NOp", "Ret"}
    \/ instruction.opcode = "AssertEq" /\ r = None

\* C29: an unassigned op0 (then op1) that neither a builtin nor the
\* instruction yields makes compute_operands fail with
\* FailedToComputeOperands, whether or not dst is assigned; an unassigned dst
\* is deduced as res for AssertEq with res present and as Addr(1, fp) for
\* Call and written at dst_addr, and for NOp, Ret, or AssertEq with res = None
\* compute_operands fails with NoDst and writes nothing.
C29_UndeducibleOperands ==
    [][ /\ (Deducing(2) /\ Op0Undeducible) =>
              /\ result'.out = Err(<<"FailedToComputeOperands">>)
              /\ memory' = Hinted.vm.memory
        /\ (Deducing(3) /\ 2 \notin result'.absent /\ Op1Undeducible) =>
              /\ result'.out = Err(<<"FailedToComputeOperands">>)
              /\ memory' = Hinted.vm.memory
        /\ (Deducing(1) /\ result'.out.ok) =>
              /\ \/ /\ result'.instruction.opcode = "AssertEq"
                    /\ result'.out.val.operands.res # None
                    /\ result'.out.val.operands.dst = result'.out.val.operands.res
                 \/ /\ result'.instruction.opcode = "Call"
                    /\ result'.out.val.operands.dst = Rel(1, fp)
              /\ get(memory', DstAddr) = result'.out.val.operands.dst
        /\ (Deducing(1) /\ result'.absent = {1}
               /\ compute_res(result'.instruction, Op0Held, Op1Held).ok) =>
              IF NoDstFor(result'.instruction,
                          compute_res(result'.instruction, Op0Held, Op1Held).val)
              THEN /\ result'.out = Err(<<"NoDst">>)
                   /\ memory' = Hinted.vm.memory
              ELSE result'.out.ok
      ]_vars

\* A NOp step found dst and op0 unassigned and reported the operand, not dst
C29_Witness ==
    /\ result.op = "step"
    /\ result.instruction # None
    /\ result.instruction.opcode = "NOp"
    /\ {1, 2} \subseteq result.absent
    /\ result.out = Err(<<"FailedToComputeOperands">>)

\* The res a deduction of op0 or op1 gave, if any: the one of op0 first
AdoptedRes ==
    Let(IF 2 \in result'.absent
           /\ deduce_memory_cell(Op0Addr, Hinted.vm.memory) = Ok(None)
        THEN deduce_op0(Regs(VM), result'.instruction, DstHeld, Op1Held).val.res
        ELSE None,
        LAMBDA from_op0 :
            IF from_op0 # None THEN from_op0
            ELSE IF 3 \in result'.absent
                    /\ deduce_memory_cell(Op1Addr, Hinted.vm.memory) = Ok(None)
            THEN deduce_op1(result'.instruction, DstHeld,
                            result'.out.val.operands.op0).val.res
            ELSE None)

\* The operands of the step being taken are two Ints
IntOperands(operands) == IsInt(operands.op0) /\ IsInt(operands.op1)

\* C30: with no res adopted from an operand deduction, res is op1 for
\* Res::Op1, (op0 + op1) mod P for Res::Add over two Ints, (op0 * op1) mod P
\* for Res::Mul over two Ints and None for Res::Unconstrained, and Res::Mul
\* over an Addr fails with PureValue; with a res adopted from a deduction,
\* res is that value and nothing is computed.
C30_ComputeRes ==
    [][ /\ (result'.op = "step" /\ result'.instruction # None /\ result'.out.ok) =>
              Let(result'.out.val.operands, LAMBDA operands :
                  IF AdoptedRes # None
                  THEN operands.res = AdoptedRes
                  ELSE CASE result'.instruction.res = "Op1" ->
                                operands.res = operands.op1
                         [] result'.instruction.res = "Add" ->
                                IntOperands(operands) =>
                                    operands.res
                                      = MInt((operands.op0.int + operands.op1.int) % Prime)
                         [] result'.instruction.res = "Mul" ->
                                /\ IntOperands(operands)
                                /\ operands.res
                                      = MInt((operands.op0.int * operands.op1.int) % Prime)
                         [] OTHER -> operands.res = None)
        /\ (/\ result'.op = "step"
            /\ result'.instruction # None
            /\ operand_addresses(Hinted.vm.memory, Regs(VM), result'.instruction).ok
            /\ result'.absent \cap {2, 3} = {}
            /\ result'.instruction.res = "Mul"
            /\ (IsRel(Op0Held) \/ IsRel(Op1Held))) =>
              result'.out = Err(<<"PureValue">>)
      ]_vars

\* A product of two large field elements was reduced: (P - 1) * (P - 1) = 1
C30_Witness ==
    /\ result.op = "step"
    /\ result.instruction # None
    /\ result.instruction.res = "Mul"
    /\ result.absent = {1}
    /\ result.out.ok
    /\ result.out.val.operands.op0 = MInt(Prime - 1)
    /\ result.out.val.operands.op1 = MInt(Prime - 1)
    /\ result.out.val.operands.res = MInt(1)

\* The memory a list of hints leaves when run in order up to the first one
\* that fails, and the error of that one (<<>> when all succeed)
RECURSIVE HintsRun(_, _)
HintsRun(mem, hint_list) ==
    IF hint_list = <<>> THEN [mem |-> mem, err |-> <<>>]
    ELSE IF Head(hint_list).kind = "fail"
    THEN [mem |-> mem, err |-> <<"CustomHint">>]
    ELSE IF get(mem, Head(hint_list).addr) = None
    THEN HintsRun([a \in DOMAIN mem \cup {Head(hint_list).addr} |->
                      IF a = Head(hint_list).addr THEN Head(hint_list).val ELSE mem[a]],
                  Tail(hint_list))
    ELSE IF get(mem, Head(hint_list).addr) = Head(hint_list).val
    THEN HintsRun(mem, Tail(hint_list))
    ELSE [mem |-> mem,
          err |-> <<"MemoryError", "InconsistentMemory", Head(hint_list).addr,
                    get(mem, Head(hint_list).addr), Head(hint_list).val>>]

\* C31: a step runs the hints registered at pc.offset in list order before
\* the instruction is fetched; when a hint fails the step returns its error,
\* the later hints and the instruction do not run (memory is as the earlier
\* hints left it; registers, step counter and trace are unchanged);
\* otherwise the instruction runs on the memory the hints left, so that
\* operand resolution sees their writes.
C31_HintsFirst ==
    [][ result'.op = "step" =>
          Let(HintsRun(memory, result'.hint_list), LAMBDA h :
              IF h.err # <<>>
              THEN /\ result'.ret = Err(h.err)
                   /\ result'.instruction = None
                   /\ memory' = h.mem
                   /\ pc' = pc /\ ap' = ap /\ fp' = fp
                   /\ current_step' = current_step
                   /\ trace' = trace
              ELSE Let(step_instruction([VM EXCEPT !.memory = h.mem]), LAMBDA r :
                       /\ result'.ret = r.ret
                       /\ result'.instruction = r.instruction
                       /\ result'.absent
                            = absent_operands(h.mem, Regs(VM), r.instruction)
                       /\ memory' = r.vm.memory
                       /\ pc' = r.vm.pc /\ ap' = r.vm.ap /\ fp' = r.vm.fp
                       /\ trace' = r.vm.trace))
      ]_vars

\* Two hints wrote op0 = 3 and op1 = 2 and the instruction of the same step
\* read them and deduced dst = 5
C31_Witness ==
    /\ result.op = "step"
    /\ Len(result.hint_list) = 2
    /\ Len(trace) = 1
    /\ result.ret.ok
    /\ result.absent = {1}
    /\ result.out.val.operands.op0 = MInt(3)
    /\ result.out.val.operands.op1 = MInt(2)
    /\ get(memory, Rel(1, 0)) = MInt(5)

\* C32: get_return_values(n) fails with NumOutOfBounds when n > ap, fails
\* with GetRangeMemoryGap when a cell of (1, ap - n) .. (1, ap - 1) is
\* unassigned, and otherwise returns the n values of those cells in address
\* order; memory and registers are as before the call.
C32_GetReturnValues ==
    [][ result'.op = "get_return_values" =>
          /\ memory' = memory /\ pc' = pc /\ ap' = ap /\ fp' = fp
          /\ IF result'.n_ret > ap
             THEN result'.ret = Err(<<"NumOutOfBounds">>)
             ELSE IF \E o \in (ap - result'.n_ret)..(ap - 1) : Rel(1, o) \notin DOMAIN memory
             THEN result'.ret = Err(<<"GetRangeMemoryGap">>)
             ELSE /\ result'.ret.ok
                  /\ Len(result'.ret.val) = result'.n_ret
                  /\ \A i \in 1..result'.n_ret :
                        result'.ret.val[i] = memory[Rel(1, ap - result'.n_ret + i - 1)]
      ]_vars

\* Two different values were returned from below ap = 3, in address order
C32_Witness ==
    /\ result.op = "get_return_values"
    /\ result.n_ret = 2
    /\ ap = 3
    /\ result.ret = Ok(<<MInt(2), MInt(3)>>)
    /\ get(memory, Rel(1, 1)) = MInt(2)
    /\ get(memory, Rel(1, 2)) = MInt(3)

\* The last call was get_used_cells_and_allocated_size
AllocationChecked == result.op = "get_used_cells_and_allocated_size"

\* Size allocated to the builtin after current_step steps
AllocatedSize == cells_per_instance * (current_step \div ratio)

\* The success and InsufficientAllocatedCells cases of the allocation check
AllocationOutcome ==
    /\ result.ret.ok =>
          /\ current_step >= ratio
          /\ result.computed
          /\ result.ret.val = <<segment_len(memory, 2), AllocatedSize>>
          /\ segment_len(memory, 2) <= AllocatedSize
    /\ current_step < ratio => result.ret = Err(<<"InsufficientAllocatedCells">>)
    /\ (/\ current_step >= ratio
        /\ result.computed
        /\ segment_len(memory, 2) > AllocatedSize) =>
          result.ret = Err(<<"InsufficientAllocatedCells">>)

\* C33 as stated: get_used_cells_and_allocated_size returns Ok((used, size))
\* only when current_step >= ratio and used <= size, with used the used size
\* of the builtin segment and size = cells_per_instance * (current_step /
\* ratio); it fails with InsufficientAllocatedCells when current_step < ratio
\* or used > size, and with MissingSegmentUsedSizes whenever the segment
\* sizes were not computed.
C33_AllocatedSizeAsStated ==
    AllocationChecked =>
        /\ AllocationOutcome
        /\ ~result.computed => result.ret = Err(<<"MissingSegmentUsedSizes">>)

\* C33, amended: as above, but MissingSegmentUsedSizes is the failure of a
\* call made without computed segment sizes only when current_step >= ratio
\* (before that the call fails with InsufficientAllocatedCells).
C33_AllocatedSize ==
    AllocationChecked =>
        /\ AllocationOutcome
        /\ (current_step >= ratio /\ ~result.computed) =>
              result.ret = Err(<<"MissingSegmentUsedSizes">>)

\* After four steps two instances are allocated and six cells are used
C33_Witness ==
    /\ AllocationChecked
    /\ current_step = 2 * ratio
    /\ segment_len(memory, 2) = cells_per_instance + 1
    /\ result.ret = Ok(<<cells_per_instance + 1, 2 * cells_per_instance>>)

\* The length and the data words the hint finds, and the limit of its scope
KeccakLength == get(memory, KeccakIds.length)
KeccakWord(i) == get(memory, Rel(2, i))
KeccakWordBytes(i) == cmp_min(WordBytes, KeccakLength.int - WordBytes * i)
KeccakWordFits(i) ==
    /\ IsInt(KeccakWord(i))
    /\ 0 <= KeccakWord(i).int
    /\ KeccakWord(i).int < Pow2(ByteBits * KeccakWordBytes(i))
KeccakWordsFit(n) == \A i \in 0..(n - 1) : KeccakWordFits(i)
KeccakHashable ==
    /\ IsInt(KeccakLength)
    /\ KeccakLength.int \in 0..u64_MAX
    /\ IsRel(get(memory, KeccakIds.data))
KeccakLimited(exec_scopes) ==
    /\ "__keccak_max_size" \in DOMAIN exec_scopes
    /\ IsInt(exec_scopes["__keccak_max_size"])
    /\ IsInt(KeccakLength)
    /\ KeccakLength.int > exec_scopes["__keccak_max_size"].int

\* C34: when the scope variable __keccak_max_size exists and ids.length is
\* greater than it, unsafe_keccak fails with KeccakMaxSize(length, max)
\* before it reads a data word and without writing ids.high or ids.low;
\* when the variable is absent no limit is applied: the hint never fails
\* with KeccakMaxSize and hashes every length whose words fit.
C34_KeccakMaxSize ==
    [][result'.op = "unsafe_keccak" =>
          /\ KeccakLimited(result'.exec_scopes) =>
                /\ result'.ret = Err(<<"KeccakMaxSize", KeccakLength.int,
                                       result'.exec_scopes["__keccak_max_size"].int>>)
                /\ result'.read = <<>>
                /\ memory' = memory
          /\ DOMAIN result'.exec_scopes = {} =>
                /\ result'.ret.ok \/ result'.ret.err[1] # "KeccakMaxSize"
                /\ (KeccakHashable /\ KeccakWordsFit(div_ceil(KeccakLength.int, WordBytes))) =>
                      /\ result'.ret.ok
                      /\ Len(result'.keccak_input) = KeccakLength.int
    ]_vars

\* Three bytes whose words fit are refused under a limit of one byte, with
\* no word read and ids.high and ids.low unassigned
C34_Witness ==
    /\ result.op = "unsafe_keccak"
    /\ KeccakLength = MInt(WordBytes + 1)
    /\ KeccakWordsFit(2)
    /\ result.exec_scopes = [name \in {"__keccak_max_size"} |-> MInt(1)]
    /\ result.ret = Err(<<"KeccakMaxSize", WordBytes + 1, 1>>)
    /\ result.read = <<>>
    /\ get(memory, KeccakIds.high) = None
    /\ get(memory, KeccakIds.low) = None

\* The n big-endian bytes of w
BigEndian(w, n) == [k \in 1..n |-> (w \div Pow2(ByteBits * (n - k))) % Pow2(ByteBits)]

\* C35: unsafe_keccak reads exactly ceil(length / 16) words data[0],
\* data[1], ... in order; word i must be an Int with 0 <= word <
\* 2^(8 * n_bytes), n_bytes = min(16, length - 16 * i), and contributes
\* exactly its n_bytes big-endian bytes to the hash input, of length bytes
\* in all; a word outside that range fails with InvalidWordSize and neither
\* ids.high nor ids.low is written.
C35_KeccakWords ==
    [][(/\ result'.op = "unsafe_keccak"
        /\ KeccakHashable
        /\ ~KeccakLimited(result'.exec_scopes)) =>
          /\ KeccakWordsFit(div_ceil(KeccakLength.int, WordBytes)) =>
                /\ result'.ret.ok
                /\ result'.read = [i \in 1..div_ceil(KeccakLength.int, WordBytes) |->
                                      Rel(2, i - 1)]
                /\ Len(result'.keccak_input) = KeccakLength.int
                /\ \A i \in 0..(div_ceil(KeccakLength.int, WordBytes) - 1) :
                      SubSeq(result'.keccak_input, WordBytes * i + 1,
                             WordBytes * i + KeccakWordBytes(i))
                          = BigEndian(KeccakWord(i).int, KeccakWordBytes(i))
          /\ \A i \in 0..(div_ceil(KeccakLength.int, WordBytes) - 1) :
                (KeccakWordsFit(i) /\ IsInt(KeccakWord(i)) /\ ~KeccakWordFits(i)) =>
                    /\ result'.ret = Err(<<"InvalidWordSize", KeccakWord(i).int>>)
                    /\ result'.read = [j \in 1..(i + 1) |-> Rel(2, j - 1)]
                    /\ get(memory', KeccakIds.high) = get(memory, KeccakIds.high)
                    /\ get(memory', KeccakIds.low) = get(memory, KeccakIds.low)
                    /\ get(memory', KeccakIds.high) = None
                    /\ get(memory', KeccakIds.low) = None
    ]_vars

\* Three bytes are hashed from a full word and a last word of one byte
C35_Witness ==
    /\ result.op = "unsafe_keccak"
    /\ KeccakLength = MInt(WordBytes + 1)
    /\ KeccakWord(0) = MInt(Pow2(ByteBits))
    /\ KeccakWord(1) = MInt(Pow2(ByteBits) - 1)
    /\ result.ret.ok
    /\ result.read = <<Rel(2, 0), Rel(2, 1)>>
    /\ result.keccak_input = <<1, 0, Pow2(ByteBits) - 1>>
    /\ get(memory, KeccakIds.high) # None
    /\ get(memory, KeccakIds.low) # None

\* C36: for FpUpdate::Dst with dst = Int(n), the update fails and leaves fp
\* unchanged if n >= 2^63 or n is negative, and otherwise sets fp = n.
C36_FpUpdateBound ==
    [][(/\ UpdatingRegisters
        /\ result'.instruction.fp_update = "Dst"
        /\ IsInt(result'.out.val.operands.dst)) =>
          Let(result'.out.val.operands.dst.int, LAMBDA n :
              IF n >= i64_MAX + 1 \/ n < 0
              THEN ~result'.ret.ok /\ fp' = fp
              ELSE fp' = n)
    ]_vars

\* A ret whose saved fp is the largest Int that converts has set fp to it
C36_Witness ==
    /\ result.op = "step"
    /\ result.ret.ok
    /\ result.instruction # None
    /\ result.instruction.fp_update = "Dst"
    /\ result.out.val.operands.dst = MInt(i64_MAX)
    /\ result.pre.fp = 2
    /\ fp = i64_MAX

\* A step is being taken and fails
FailingStep == result'.op = "step" /\ ~result'.ret.ok

\* C37 as stated: whenever step returns an error, pc, ap and fp all have the
\* values they had before the step.
C37_FailedStepRegisters ==
    [][FailingStep => UNCHANGED <<pc, ap, fp>>]_vars

\* The fp and ap updates of the step being taken: whether each fails, and
\* the value it sets
FpUpdateFails ==
    /\ result'.instruction.fp_update = "Dst"
    /\ IsInt(result'.out.val.operands.dst)
    /\ \/ result'.out.val.operands.dst.int < 0
       \/ result'.out.val.operands.dst.int > i64_MAX
NewFp ==
    CASE result'.instruction.fp_update = "APPlus2" -> ap + 2
      [] result'.instruction.fp_update = "Dst" ->
            IF IsRel(result'.out.val.operands.dst)
            THEN result'.out.val.operands.dst.offset
            ELSE result'.out.val.operands.dst.int
      [] OTHER -> fp
ApUpdateFails ==
    /\ result'.instruction.ap_update = "Add"
    /\ ~IsInt(result'.out.val.operands.res)
NewAp ==
    CASE result'.instruction.ap_update = "Add" -> ap + result'.out.val.operands.res.int
      [] result'.instruction.ap_update = "Add1" -> ap + 1
      [] result'.instruction.ap_update = "Add2" -> ap + 2
      [] OTHER -> ap

\* C37, amended: whenever step returns an error, pc has the value it had
\* before the step; ap and fp have theirs too when the step fails before its
\* register update or in the fp update; a step that fails in the ap update
\* keeps the new fp, and a step that fails in the pc update keeps the new fp
\* and the new ap.
C37_FailedStepRegistersInOrder ==
    [][FailingStep =>
          /\ pc' = pc
          /\ ~UpdatingRegisters => ap' = ap /\ fp' = fp
          /\ UpdatingRegisters =>
                IF FpUpdateFails
                THEN ap' = ap /\ fp' = fp
                ELSE /\ fp' = NewFp
                     /\ ap' = IF ApUpdateFails THEN ap ELSE NewAp
    ]_vars

\* A call abs to an Int has failed in its pc update with fp and ap moved to
\* the new frame
C37_Witness ==
    /\ result.op = "step"
    /\ ~result.ret.ok
    /\ result.instruction # None
    /\ result.instruction.opcode = "Call"
    /\ result.instruction.pc_update = "Jump"
    /\ result.out.ok
    /\ IsInt(result.out.val.operands.res)
    /\ result.pre = [pc |-> pc, ap |-> 0, fp |-> 0]
    /\ ap = 2
    /\ fp = 2

\* C38 as stated: in every state reachable from a fresh VM by successful and
\* failing steps, the number of trace entries equals current_step and the
\* number of accessed addresses equals 4 * current_step.
C38_TraceMatchesCounter ==
    /\ Len(trace) = current_step
    /\ Len(accessed_addresses) = 4 * current_step

\* The step being taken fails in its register update: its operands were
\* resolved and its opcode assertion passed
FailsInRegisterUpdate ==
    /\ FailingStep
    /\ result'.instruction # None
    /\ result'.out.ok
    /\ opcode_assertions(Regs(VM), result'.instruction, result'.out.val.operands).ok

\* C38, amended: in every such state the number of accessed addresses is 4
\* times the number of trace entries, and the number of trace entries is
\* current_step plus the number of steps that failed in their register
\* update: such a step records its trace entry and its four addresses and is
\* not counted, every other step keeps the two numbers in step.
C38_TraceAheadOfCounter ==
    /\ Len(trace) = current_step
    /\ [](Len(accessed_addresses) = 4 * Len(trace))
    /\ [][Len(trace') - current_step' =
             Len(trace) - current_step + (IF FailsInRegisterUpdate THEN 1 ELSE 0)]_vars

\* A successful step, then a step that failed in its register update: two
\* trace entries and eight addresses for one step counted
C38_Witness ==
    /\ result.op = "step"
    /\ ~result.ret.ok
    /\ result.instruction # None
    /\ result.out.ok
    /\ current_step = 1
    /\ Len(trace) = 2
    /\ Len(accessed_addresses) = 8
    /\ trace[2].pc = pc

\* The step being taken fails after it decoded an instruction
FailingInstruction ==
    /\ FailingStep
    /\ Hinted.ret.ok
    /\ result'.instruction # None

\* C39: a cell written by operand resolution during a step (a deduced op0,
\* op1 or dst) stays written with that value when the same step later fails
\* (a later operand cannot be computed, an opcode assertion fails or a
\* register update fails) and in every later state; a failing step never
\* removes or changes a cell that was assigned before it.
C39_DeducedWritesKept ==
    [][ /\ \A a \in DOMAIN memory : a \in DOMAIN memory' /\ memory'[a] = memory[a]
        /\ FailingInstruction =>
              memory' = compute_operands(Hinted.vm.memory, Regs(VM),
                                         result'.instruction).mem
        /\ (FailingInstruction /\ result'.out.ok) =>
              /\ 1 \in result'.absent => get(memory', DstAddr) = result'.out.val.operands.dst
              /\ 2 \in result'.absent => get(memory', Op0Addr) = result'.out.val.operands.op0
              /\ 3 \in result'.absent => get(memory', Op1Addr) = result'.out.val.operands.op1
        /\ (/\ FailingInstruction
            /\ result'.instruction.opcode = "Call"
            /\ 2 \in result'.absent) =>
              get(memory', Op0Addr) = rel_add_usize(pc, size(result'.instruction))
    ]_vars

\* A call abs to an Int deduced its op0 and its dst and failed in the pc
\* update: both cells hold what was deduced
C39_Witness ==
    /\ result.op = "step"
    /\ ~result.ret.ok
    /\ result.instruction # None
    /\ result.instruction.opcode = "Call"
    /\ result.out.ok
    /\ {1, 2} \subseteq result.absent
    /\ result.pre.ap = 0
    /\ Len(trace) = 1
    /\ get(memory, Rel(1, 0)) = Rel(1, result.pre.fp)
    /\ get(memory, Rel(1, 1)) = rel_add_usize(result.pre.pc, 1)

====
